---- MODULE Spec2Model ----
(***************************************************************************)
(* A model of node-ucan: the General Semantics of capabilities            *)
(* (src/src/semantics.rs), the capability views of the ucan package        *)
(* (packages/ucan/src/capability), the proof chain and its reduction       *)
(* (packages/ucan/src/chain.rs) and the verify entry point                 *)
(* (src/src/ucan_functions.rs).                                            *)
(*                                                                         *)
(* Strings.  A Rust String is a sequence of pieces: the pieces ":", "/",   *)
(* "//", "." and "*" are the characters the code looks at, every other     *)
(* piece is a run of characters the code only compares for equality.       *)
(* "api:user/1" is <<"api", ":", "user", "/", "1">>.  Splitting, prefix    *)
(* tests and comparison are computed over the pieces as the code computes  *)
(* them over the characters.                                               *)
(***************************************************************************)
EXTENDS Integers, Sequences, FiniteSets, TLC

VARIABLES
    tokens,     \* the tokens signed so far, in the order of their CIDs
    call,       \* the verify call in flight: its arguments and its outcome
    probe,      \* semantics: the capabilities handed to a comparison
    verdict,    \* semantics: the comparison made and what it returned
    ucan_builder,   \* the builder: the fields of a UcanBuilder
    build_result,   \* what build returned, once it was called
    calls,      \* the builder methods called so far, in their order
    jobs        \* the verify calls running side by side, each with its store

vars == <<tokens, call, probe, verdict, ucan_builder, build_result, calls, jobs>>

(***************************************************************************)
(* JSON values.  A member value is a JSON string, String(s) of the pieces  *)
(* s, or Json(text) of the canonical text of any other value.  A caveat    *)
(* is an object, the set of its <<key, value>> members (keys unique), or   *)
(* an array of objects, the sequence of them; every other JSON value (a    *)
(* string, a number, null, an array holding a non-object) is the scalar.   *)
(***************************************************************************)
String(s) == [kind |-> "string", s |-> s, prf |-> {}]

Json(text) == [kind |-> "json", s |-> <<text>>, prf |-> {}]

Obj(kv) == [t |-> "obj", kv |-> kv, items |-> <<>>]

Arr(items) == [t |-> "arr", kv |-> {}, items |-> items]

Scalar == [t |-> "scalar", kv |-> {}, items |-> <<>>]

NoCaveat == Obj({})

Draft == Obj({<<"draft", Json("true")>>})

DraftTopic == Obj({<<"draft", Json("true")>>, <<"topic", Json("[\"foo\"]")>>})

Star == <<"*">>

(***************************************************************************)
(* str::split('/'): the segments between the "/" pieces; a string without  *)
(* "/" (the empty string too) is one segment.                              *)
(***************************************************************************)
RECURSIVE split(_)
split(s) ==
    IF \A i \in 1..Len(s) : s[i] # "/"
    THEN <<s>>
    ELSE LET k == CHOOSE i \in 1..Len(s) :
                      s[i] = "/" /\ \A j \in 1..(i - 1) : s[j] # "/"
         IN  <<SubSeq(s, 1, k - 1)>> \o split(SubSeq(s, k + 1, Len(s)))

(***************************************************************************)
(* GeneralAbility: Ord::cmp.  cmp_parts is the loop over self's segments;  *)
(* i is the number of the segment at hand (the other iterator has yielded  *)
(* i - 1 segments so far) and result the loop's `result` variable.         *)
(***************************************************************************)
RECURSIVE cmp_parts(_, _, _, _)
cmp_parts(self_parts, other_parts, i, result) ==
    IF i > Len(self_parts)
    THEN IF Len(other_parts) >= i THEN "Greater" ELSE result
    ELSE IF i > Len(other_parts)
    THEN "Less"
    ELSE LET part == self_parts[i]
             other_part == other_parts[i]
         IN  IF part = Star /\ other_part = Star
             THEN cmp_parts(self_parts, other_parts, i + 1, "Equal")
             ELSE IF part = Star
             THEN cmp_parts(self_parts, other_parts, i + 1, "Greater")
             ELSE IF other_part = Star
             THEN cmp_parts(self_parts, other_parts, i + 1, "Less")
             ELSE IF part # other_part
             THEN "Less"
             ELSE cmp_parts(self_parts, other_parts, i + 1, result)

\* A mutation of cmp: a longer path is greater than its prefix.
cmp_longer_wins(self, other) ==
    IF self = other THEN "Equal"
    ELSE IF self = Star THEN "Greater"
    ELSE IF other = Star THEN "Less"
    ELSE LET sp == split(self)
             op == split(other)
             r == cmp_parts(sp, op, 1, "Equal")
         IN  IF Len(sp) > Len(op) /\ cmp_parts(op, sp, 1, "Equal") = "Greater"
             THEN "Greater"
             ELSE IF Len(op) > Len(sp) /\ r = "Greater"
             THEN "Less"
             ELSE r

cmp(self, other) ==
    IF self = other THEN "Equal"
    ELSE IF self = Star THEN "Greater"
    ELSE IF other = Star THEN "Less"
    ELSE cmp_parts(split(self), split(other), 1, "Equal")

\* self >= other of PartialOrd, as derived from cmp
ge(self, other) == cmp(self, other) # "Less"

(***************************************************************************)
(* GeneralResource: Scope::contains.  contains_parts is the loop over      *)
(* self's path segments.                                                   *)
(***************************************************************************)
RECURSIVE contains_parts(_, _, _)
contains_parts(self_parts, other_parts, i) ==
    IF i > Len(self_parts)
    THEN TRUE
    ELSE IF i > Len(other_parts)
    THEN FALSE
    ELSE IF self_parts[i] # Star /\ other_parts[i] # Star
            /\ self_parts[i] # other_parts[i]
    THEN FALSE
    ELSE contains_parts(self_parts, other_parts, i + 1)

\* A mutation of contains: only a `*` of self matches any segment.
contains_self_star(self, other) ==
    IF self.scheme # other.scheme THEN FALSE
    ELSE IF self.path = Star THEN TRUE
    ELSE IF other.path = Star THEN FALSE
    ELSE LET sp == split(self.path)
             op == split(other.path)
         IN  /\ Len(sp) <= Len(op)
             /\ \A i \in 1..Len(sp) : sp[i] = Star \/ sp[i] = op[i]

\* A mutation of contains: the early return for a required `*` is missing.
contains_no_star_return(self, other) ==
    IF self.scheme # other.scheme THEN FALSE
    ELSE IF self.path = Star THEN TRUE
    ELSE contains_parts(split(self.path), split(other.path), 1)

contains(self, other) ==
    IF self.scheme # other.scheme THEN FALSE
    ELSE IF self.path = Star THEN TRUE
    ELSE IF other.path = Star THEN FALSE
    ELSE contains_parts(split(self.path), split(other.path), 1)

(***************************************************************************)
(* ProofSelection (capability/proof.rs).  A selection is its variant, the  *)
(* String it carries (a CID or a DID) and the scheme of DidScheme.         *)
(***************************************************************************)
Selection(variant, id, scheme) == [variant |-> variant, id |-> id, scheme |-> scheme]

All == Selection("All", <<>>, <<>>)

TheseProofs == Selection("TheseProofs", <<>>, <<>>)

NoSelection == Selection("", <<>>, <<>>)

\* The well-formed CID strings: Cid::try_from accepts these and no other piece.
CidStrings == {"bafy1", "bafy2", "bafy3", "bafy4", "bafy9"}

starts_with(s, prefix) ==
    Len(s) >= Len(prefix) /\ SubSeq(s, 1, Len(prefix)) = prefix

\* str::strip_prefix, where starts_with(s, prefix)
strip_prefix(s, prefix) == SubSeq(s, Len(prefix) + 1, Len(s))

\* impl TryFrom<String> for ProofSelection
ProofSelection_try_from(value) ==
    IF value = <<"ucan", ":", "*">>
    THEN [ok |-> TRUE, sel |-> All]
    ELSE IF value = <<"ucan", ":", ".", "/", "*">>
    THEN [ok |-> TRUE, sel |-> TheseProofs]
    ELSE IF starts_with(value, <<"ucan", ":", "//">>)
    THEN LET s == split(strip_prefix(value, <<"ucan", ":", "//">>))
         IN  IF Len(s) # 2
             THEN [ok |-> FALSE, sel |-> NoSelection]
             ELSE IF s[2] = Star
             THEN [ok |-> TRUE, sel |-> Selection("Did", s[1], <<>>)]
             ELSE [ok |-> TRUE, sel |-> Selection("DidScheme", s[1], s[2])]
    ELSE IF starts_with(value, <<"ucan", ":">>)
    THEN LET s == strip_prefix(value, <<"ucan", ":">>)
         IN  IF Len(s) = 1 /\ s[1] \in CidStrings
             THEN [ok |-> TRUE, sel |-> Selection("Cid", s, <<>>)]
             ELSE [ok |-> FALSE, sel |-> NoSelection]
    ELSE [ok |-> FALSE, sel |-> NoSelection]

\* A mutation of ProofSelection::contains: TheseProofs contains All too.
ProofSelection_contains_these_all(self, other) ==
    \/ self = other
    \/ self = All
    \/ self = TheseProofs

\* impl Scope for ProofSelection
ProofSelection_contains(self, other) ==
    \/ self = other
    \/ self = All
    \/ (self = TheseProofs /\ other # All)

\* impl Display for ProofSelection
ProofSelection_to_string(self) ==
    CASE self.variant = "Cid" -> <<"ucan", ":">> \o self.id
      [] self.variant = "Did" -> <<"ucan", ":", "//">> \o self.id \o <<"/", "*">>
      [] self.variant = "DidScheme" ->
             <<"ucan", ":", "//">> \o self.id \o <<"/">> \o self.scheme
      [] self.variant = "TheseProofs" -> <<"ucan", ":", ".", "/", "*">>
      [] OTHER -> <<"ucan", ":", "*">>

(***************************************************************************)
(* Resource<S> (capability/semantics.rs): a URI-scoped resource of the     *)
(* semantics' Scope, or a proof selection.                                 *)
(***************************************************************************)
ResourceUri(scheme, path) ==
    [kind |-> "ResourceUri", scheme |-> scheme, path |-> path, sel |-> NoSelection]

Ucan(sel) == [kind |-> "Ucan", scheme |-> <<>>, path |-> <<>>, sel |-> sel]

NoResource == [kind |-> "", scheme |-> <<>>, path |-> <<>>, sel |-> NoSelection]

Resource_contains(self, other) ==
    CASE self.kind = "ResourceUri" /\ other.kind = "ResourceUri" ->
             contains(self, other)
      [] self.kind = "Ucan" /\ other.kind = "Ucan" ->
             ProofSelection_contains(self.sel, other.sel)
      [] self.kind = "Ucan" /\ other.kind = "ResourceUri" ->
             self.sel \in {All, TheseProofs}
      [] OTHER -> FALSE

\* impl Display for GeneralResource and for Resource<S>
Resource_to_string(self) ==
    IF self.kind = "Ucan"
    THEN ProofSelection_to_string(self.sel)
    ELSE self.scheme \o <<":">> \o self.path

(***************************************************************************)
(* url::Url::parse and impl TryFrom<Url> for GeneralResource.  A URL is a  *)
(* scheme piece, ":" and the rest; with "//" the rest starts with a host   *)
(* that ends at the next "/", without it the rest is the path.             *)
(***************************************************************************)
Punctuation == {":", "/", "//", ".", "*"}

Url_parse(value) ==
    IF Len(value) >= 2 /\ value[1] \notin Punctuation /\ value[2] = ":"
    THEN LET rest == SubSeq(value, 3, Len(value))
         IN  IF Len(rest) >= 1 /\ rest[1] = "//"
             THEN LET auth == SubSeq(rest, 2, Len(rest))
                      cut == IF \E i \in 1..Len(auth) : auth[i] = "/"
                             THEN CHOOSE i \in 1..Len(auth) :
                                      auth[i] = "/" /\ \A j \in 1..(i - 1) : auth[j] # "/"
                             ELSE Len(auth) + 1
                  IN  [ok |-> TRUE, scheme |-> <<value[1]>>,
                       host |-> SubSeq(auth, 1, cut - 1),
                       path |-> SubSeq(auth, cut, Len(auth))]
             ELSE [ok |-> TRUE, scheme |-> <<value[1]>>, host |-> <<>>, path |-> rest]
    ELSE [ok |-> FALSE, scheme |-> <<>>, host |-> <<>>, path |-> <<>>]

GeneralResource_try_from(url) ==
    LET p == url.path
        p1 == IF p # <<>>
              THEN IF url.host = <<>> THEN p ELSE url.host \o <<"/">> \o p
              ELSE url.host
    IN  ResourceUri(url.scheme, p1)

(***************************************************************************)
(* Caveat (capability/caveats.rs, not part of the sources at hand; from    *)
(* the specification's "Caveat subsumption").  A caveat value is           *)
(* normalized to an array of objects: an object to the array of itself, an *)
(* array of objects to itself, and nothing else is a caveat.  A subsumes B *)
(* iff every object of B is covered by an object of A, and X covers Y iff  *)
(* every key of X is in Y with an equal value.                             *)
(***************************************************************************)
Caveat_try_from(value) ==
    CASE value.t = "obj" -> [ok |-> TRUE, items |-> <<value.kv>>]
      [] value.t = "arr" -> [ok |-> TRUE, items |-> value.items]
      [] OTHER -> [ok |-> FALSE, items |-> <<>>]

Caveat_enables(self, other) ==
    \A j \in 1..Len(other) : \E i \in 1..Len(self) : self[i] \subseteq other[j]

(***************************************************************************)
(* CapabilitySemantics::parse and CapabilityView (capability/semantics.rs) *)
(* under the General Semantics (src/src/semantics.rs): parse_scope and     *)
(* parse_action never fail, parse_caveat keeps the value it is given.      *)
(***************************************************************************)
Capability(resource, ability, caveat) ==
    [resource |-> resource, ability |-> ability, caveat |-> caveat]

CapabilityView(resource, ability, caveat) ==
    [resource |-> resource, ability |-> ability, caveat |-> caveat]

NoView == CapabilityView(NoResource, <<>>, Scalar)

parse_caveat(caveat) == caveat

Delegate == <<"ucan", "/", "*">>

\* parse_scope: TryFrom<Url> of the semantics' Scope (GeneralResource takes
\* every URL, ProofSelection only the scheme "ucan")
parse_scope(semantics, uri) ==
    IF semantics = "General"
    THEN [ok |-> TRUE, resource |-> GeneralResource_try_from(uri)]
    ELSE IF uri.scheme = <<"ucan">>
    THEN LET sel == ProofSelection_try_from(uri.scheme \o <<":">> \o uri.path)
         IN  [ok |-> sel.ok, resource |-> Ucan(sel.sel)]
    ELSE [ok |-> FALSE, resource |-> NoResource]

\* A mutation of parse_action: every semantics takes every ability.
parse_action_any(semantics, ability) == [ok |-> TRUE, ability |-> ability]

\* parse_action: TryFrom<String> of the semantics' Ability (GeneralAbility
\* takes every string, ProofAction only "ucan/*")
parse_action(semantics, ability) ==
    IF semantics = "General"
    THEN [ok |-> TRUE, ability |-> ability]
    ELSE [ok |-> ability = Delegate, ability |-> Delegate]

parse(semantics, resource, ability, caveat) ==
    LET cap_resource ==
            IF starts_with(resource, <<"ucan", ":">>)
            THEN LET sel == ProofSelection_try_from(resource)
                 IN  [ok |-> sel.ok, resource |-> Ucan(sel.sel)]
            ELSE LET uri == Url_parse(resource)
                 IN  IF uri.ok
                     THEN parse_scope(semantics, uri)
                     ELSE [ok |-> FALSE, resource |-> NoResource]
        cap_ability == parse_action(semantics, ability)
    IN  IF cap_resource.ok /\ cap_ability.ok
        THEN [ok |-> TRUE,
              view |-> CapabilityView(cap_resource.resource, cap_ability.ability,
                                      parse_caveat(caveat))]
        ELSE [ok |-> FALSE, view |-> NoView]

parse_capability(semantics, value) ==
    parse(semantics, value.resource, value.ability, value.caveat)

\* impl From<CapabilityView<S, A>> for Capability
Capability_from(view) ==
    Capability(Resource_to_string(view.resource), view.ability, view.caveat)

\* A mutation of enables: the caveats are not compared.
enables_any_caveat(self, other) ==
    LET self_caveat == Caveat_try_from(self.caveat)
        other_caveat == Caveat_try_from(other.caveat)
    IN  IF self_caveat.ok /\ other_caveat.ok
        THEN /\ Resource_contains(self.resource, other.resource)
             /\ ge(self.ability, other.ability)
        ELSE FALSE

\* A mutation of enables: the ability must be strictly greater.
enables_strict(self, other) ==
    LET self_caveat == Caveat_try_from(self.caveat)
        other_caveat == Caveat_try_from(other.caveat)
    IN  IF self_caveat.ok /\ other_caveat.ok
        THEN /\ Resource_contains(self.resource, other.resource)
             /\ cmp(self.ability, other.ability) = "Greater"
             /\ Caveat_enables(self_caveat.items, other_caveat.items)
        ELSE FALSE

\* CapabilityView::enables
enables(self, other) ==
    LET self_caveat == Caveat_try_from(self.caveat)
        other_caveat == Caveat_try_from(other.caveat)
    IN  IF self_caveat.ok /\ other_caveat.ok
        THEN /\ Resource_contains(self.resource, other.resource)
             /\ ge(self.ability, other.ability)
             /\ Caveat_enables(self_caveat.items, other_caveat.items)
        ELSE FALSE

(***************************************************************************)
(* Tokens.  Option<u64>::None is None; a FactsMap is the set of its        *)
(* <<key, value>> entries, and facts["prf"] is the object of the proofs    *)
(* carried inline, here the set of their CIDs.                             *)
(***************************************************************************)
None == 0 - 1

PrfObject(cids) == [kind |-> "object", s |-> <<>>, prf |-> cids]

UcanPayload(issuer, audience, not_before, expires_at, capabilities, proofs, facts) ==
    [issuer |-> issuer, audience |-> audience, not_before |-> not_before,
     expires_at |-> expires_at, capabilities |-> capabilities, proofs |-> proofs,
     facts |-> facts]

\* The CIDs of the tokens, in the order BTreeSet<Cid> iterates them.  The
\* k-th token signed has the k-th CID.
Cids == <<"bafy1", "bafy2", "bafy3", "bafy4">>

Issued == {Cids[k] : k \in 1..Len(tokens)}

\* Ucan::to_cid: the content identifier of a token (a hash of its JWT, so
\* that tokens of different content have different CIDs)
to_cid(ucan) == Cids[CHOOSE k \in 1..Len(tokens) : tokens[k] = ucan]

\* the token a JWT string decodes to (Ucan::try_from), by the CID of the JWT
Ucan_try_from(cid) == tokens[CHOOSE k \in 1..Len(tokens) : Cids[k] = cid]

get(facts, key) == {e \in facts : e[1] = key}

contains_key(facts, key) == get(facts, key) # {}

value_of(facts, key) == (CHOOSE e \in facts : e[1] = key)[2]

\* Ucan::require_token: the inline proof facts["prf"][cid], when a string
Ucan_require_token(ucan, cid) ==
    /\ contains_key(ucan.facts, "prf")
    /\ cid \in value_of(ucan.facts, "prf").prf

Ok == [ok |-> TRUE, err |-> ""]

Err(message) == [ok |-> FALSE, err |-> message]

(***************************************************************************)
(* Ucan::validate and Ucan::lifetime_encompasses (ucan.rs, not part of the *)
(* sources at hand; from the specification's Validator: the tokens of the  *)
(* model are all signed by their issuer).                                  *)
(***************************************************************************)
validate(ucan, now_time) ==
    IF ucan.expires_at # None /\ now_time > ucan.expires_at
    THEN Err("expired")
    ELSE IF ucan.not_before # None /\ now_time < ucan.not_before
    THEN Err("not yet active")
    ELSE Ok

lifetime_encompasses(self, other) ==
    /\ \/ self.not_before = None
       \/ (other.not_before # None /\ self.not_before <= other.not_before)
    /\ \/ self.expires_at = None
       \/ (other.expires_at # None /\ self.expires_at >= other.expires_at)

(***************************************************************************)
(* ProofChain (chain.rs)                                                   *)
(***************************************************************************)
ProofChain(ucan, proofs, redelegations) ==
    [ucan |-> ucan, proofs |-> proofs, redelegations |-> redelegations]

NoProofChain == ProofChain(<<>>, <<>>, {})

\* A mutation of validate_link_to: the lifetimes are compared first.
validate_link_to_lifetime_first(self, ucan) ==
    IF lifetime_encompasses(self.ucan, ucan)
    THEN IF self.ucan.audience = ucan.issuer
         THEN Ok
         ELSE Err("Invalid UCAN link: audience does not match issuer")
    ELSE Err("Invalid UCAN link: lifetime exceeds attenuation")

validate_link_to(self, ucan) ==
    IF self.ucan.audience = ucan.issuer
    THEN IF lifetime_encompasses(self.ucan, ucan)
         THEN Ok
         ELSE Err("Invalid UCAN link: lifetime exceeds attenuation")
    ELSE Err("Invalid UCAN link: audience does not match issuer")

\* the first proof of a chain list that P holds of, as a set of at most one
find(proofs, P(_)) ==
    IF \E i \in 1..Len(proofs) : P(proofs[i])
    THEN {proofs[CHOOSE i \in 1..Len(proofs) :
                    P(proofs[i]) /\ \A j \in 1..(i - 1) : ~P(proofs[j])]}
    ELSE {}

\* A mutation of redelegate: a `ucan:<cid>` that names no immediate proof is
\* passed over.
RECURSIVE redelegate_lenient(_, _, _, _)
redelegate_lenient(ucan, proofs, i, redelegations) ==
    IF i > Len(ucan.capabilities)
    THEN [ok |-> TRUE, err |-> "", redelegations |-> redelegations]
    ELSE LET capability == parse_capability("ProofDelegation", ucan.capabilities[i])
             kind == capability.view.resource.sel
             failed(message) == [ok |-> FALSE, err |-> message, redelegations |-> {}]
         IN  IF ~capability.ok
             THEN redelegate_lenient(ucan, proofs, i + 1, redelegations)
             ELSE CASE kind.variant \in {"All", "TheseProofs"} ->
                          redelegate_lenient(ucan, proofs, i + 1,
                              redelegations \cup
                                  {to_cid(proofs[k].ucan) : k \in 1..Len(proofs)})
                    [] kind.variant = "Cid" ->
                          redelegate_lenient(ucan, proofs, i + 1,
                              redelegations \cup
                                  {to_cid(proofs[k].ucan) :
                                     k \in {j \in 1..Len(proofs) :
                                              <<to_cid(proofs[j].ucan)>> = kind.id}})
                    [] kind.variant = "Did" ->
                          LET IssuedBy(proof) == <<proof.ucan.issuer>> = kind.id
                              proof == find(proofs, IssuedBy)
                          IN  IF proof # {}
                              THEN redelegate_lenient(ucan, proofs, i + 1,
                                       redelegations \cup {to_cid(p.ucan) : p \in proof})
                              ELSE failed("Unable to redelegate proof; DID not found")
                    [] OTHER ->
                          failed("Unable to redelegate proof; ucan://<did>/<scheme> not supported")

\* A mutation of redelegate: `ucan://<did>/*` takes every proof the DID
\* issued.
RECURSIVE redelegate_every_of_did(_, _, _, _)
redelegate_every_of_did(ucan, proofs, i, redelegations) ==
    IF i > Len(ucan.capabilities)
    THEN [ok |-> TRUE, err |-> "", redelegations |-> redelegations]
    ELSE LET capability == parse_capability("ProofDelegation", ucan.capabilities[i])
             kind == capability.view.resource.sel
             failed(message) == [ok |-> FALSE, err |-> message, redelegations |-> {}]
         IN  IF ~capability.ok
             THEN redelegate_every_of_did(ucan, proofs, i + 1, redelegations)
             ELSE CASE kind.variant \in {"All", "TheseProofs"} ->
                          redelegate_every_of_did(ucan, proofs, i + 1,
                              redelegations \cup
                                  {to_cid(proofs[k].ucan) : k \in 1..Len(proofs)})
                    [] kind.variant = "Cid" ->
                          IF \E k \in 1..Len(proofs) : <<to_cid(proofs[k].ucan)>> = kind.id
                          THEN redelegate_every_of_did(ucan, proofs, i + 1,
                                   redelegations \cup {kind.id[1]})
                          ELSE failed("Unable to redelegate proof; CID not found")
                    [] kind.variant = "Did" ->
                          LET by == {k \in 1..Len(proofs) :
                                       <<proofs[k].ucan.issuer>> = kind.id}
                          IN  IF by # {}
                              THEN redelegate_every_of_did(ucan, proofs, i + 1,
                                       redelegations \cup
                                           {to_cid(proofs[k].ucan) : k \in by})
                              ELSE failed("Unable to redelegate proof; DID not found")
                    [] OTHER ->
                          failed("Unable to redelegate proof; ucan://<did>/<scheme> not supported")

\* from_ucan, the loop over the capabilities that parse as proof delegations
RECURSIVE redelegate(_, _, _, _)
redelegate(ucan, proofs, i, redelegations) ==
    IF i > Len(ucan.capabilities)
    THEN [ok |-> TRUE, err |-> "", redelegations |-> redelegations]
    ELSE LET capability == parse_capability("ProofDelegation", ucan.capabilities[i])
             kind == capability.view.resource.sel
             failed(message) == [ok |-> FALSE, err |-> message, redelegations |-> {}]
         IN  IF ~capability.ok
             THEN redelegate(ucan, proofs, i + 1, redelegations)
             ELSE CASE kind.variant \in {"All", "TheseProofs"} ->
                          redelegate(ucan, proofs, i + 1,
                              redelegations \cup
                                  {to_cid(proofs[k].ucan) : k \in 1..Len(proofs)})
                    [] kind.variant = "Cid" ->
                          IF \E k \in 1..Len(proofs) : <<to_cid(proofs[k].ucan)>> = kind.id
                          THEN redelegate(ucan, proofs, i + 1,
                                          redelegations \cup {kind.id[1]})
                          ELSE failed("Unable to redelegate proof; CID not found")
                    [] kind.variant = "Did" ->
                          LET IssuedBy(proof) == <<proof.ucan.issuer>> = kind.id
                              proof == find(proofs, IssuedBy)
                          IN  IF proof # {}
                              THEN redelegate(ucan, proofs, i + 1,
                                       redelegations \cup {to_cid(p.ucan) : p \in proof})
                              ELSE failed("Unable to redelegate proof; DID not found")
                    [] OTHER ->
                          failed("Unable to redelegate proof; ucan://<did>/<scheme> not supported")

\* from_ucan (and try_from_token_string, which decodes the JWT and calls
\* it); resolve_proofs is its loop over ucan.proofs, i the proof at hand
\* and proofs the chains pushed so far.  store is the set of the CIDs the
\* store holds a token for.
RECURSIVE from_ucan(_, _, _)
RECURSIVE resolve_proofs(_, _, _, _, _)
\* A mutation of resolve_proofs: the inline proofs are not looked at.
RECURSIVE resolve_proofs_store_only(_, _, _, _, _)
resolve_proofs_store_only(ucan, i, proofs, now_time, store) ==
    LET failed(message) == [ok |-> FALSE, err |-> message, proofs |-> <<>>]
    IN  IF i > Len(ucan.proofs)
        THEN [ok |-> TRUE, err |-> "", proofs |-> proofs]
        ELSE LET cid == ucan.proofs[i]
             IN  IF cid \notin CidStrings
                 THEN failed("Failed to parse CID")
                 ELSE IF cid \notin store
                 THEN failed("Token not found")
                 ELSE LET proof_chain == from_ucan(Ucan_try_from(cid), now_time, store)
                          link == validate_link_to(proof_chain.chain, ucan)
                      IN  IF ~proof_chain.ok
                          THEN failed(proof_chain.err)
                          ELSE IF ~link.ok
                          THEN failed(link.err)
                          ELSE resolve_proofs_store_only(ucan, i + 1,
                                   Append(proofs, proof_chain.chain), now_time, store)

resolve_proofs(ucan, i, proofs, now_time, store) ==
    LET failed(message) == [ok |-> FALSE, err |-> message, proofs |-> <<>>]
    IN  IF i > Len(ucan.proofs)
        THEN [ok |-> TRUE, err |-> "", proofs |-> proofs]
        ELSE LET cid == ucan.proofs[i]
             IN  IF cid \notin CidStrings
                 THEN failed("Failed to parse CID")
                 ELSE IF ~Ucan_require_token(ucan, cid) /\ cid \notin store
                 THEN failed("Token not found")
                 ELSE LET proof_chain == from_ucan(Ucan_try_from(cid), now_time, store)
                          link == validate_link_to(proof_chain.chain, ucan)
                      IN  IF ~proof_chain.ok
                          THEN failed(proof_chain.err)
                          ELSE IF ~link.ok
                          THEN failed(link.err)
                          ELSE resolve_proofs(ucan, i + 1,
                                   Append(proofs, proof_chain.chain), now_time, store)

\* A mutation of from_ucan: the token is validated after its proofs are
\* resolved.
from_ucan_proofs_first(ucan, now_time, store) ==
    LET failed(message) == [ok |-> FALSE, err |-> message, chain |-> NoProofChain]
        valid == validate(ucan, now_time)
        resolved == resolve_proofs(ucan, 1, <<>>, now_time, store)
    IN  IF ~resolved.ok
        THEN failed(resolved.err)
        ELSE IF ~valid.ok
        THEN failed(valid.err)
        ELSE LET redelegated == redelegate(ucan, resolved.proofs, 1, {})
             IN  IF ~redelegated.ok
                 THEN failed(redelegated.err)
                 ELSE [ok |-> TRUE, err |-> "",
                       chain |-> ProofChain(ucan, resolved.proofs,
                                            redelegated.redelegations)]

from_ucan(ucan, now_time, store) ==
    LET failed(message) == [ok |-> FALSE, err |-> message, chain |-> NoProofChain]
        valid == validate(ucan, now_time)
    IN  IF ~valid.ok
        THEN failed(valid.err)
        ELSE LET resolved == resolve_proofs(ucan, 1, <<>>, now_time, store)
             IN  IF ~resolved.ok
                 THEN failed(resolved.err)
                 ELSE LET redelegated == redelegate(ucan, resolved.proofs, 1, {})
                      IN  IF ~redelegated.ok
                          THEN failed(redelegated.err)
                          ELSE [ok |-> TRUE, err |-> "",
                                chain |-> ProofChain(ucan, resolved.proofs,
                                                     redelegated.redelegations)]

(***************************************************************************)
(* ProofChain::reduce_capabilities, with the General Semantics             *)
(***************************************************************************)
CapabilityInfo(originators, not_before, expires_at, capability) ==
    [originators |-> originators, not_before |-> not_before,
     expires_at |-> expires_at, capability |-> capability]

\* Iterator::flat_map over the elements 1..n of a sequence
RECURSIVE flat_map(_, _, _)
flat_map(f(_), xs, i) ==
    IF i > Len(xs) THEN <<>> ELSE f(xs[i]) \o flat_map(f, xs, i + 1)

map(f(_), xs) == [i \in 1..Len(xs) |-> f(xs[i])]

\* the elements of a BTreeSet<Cid>, in order
iter(cids) == SelectSeq(Cids, LAMBDA cid : cid \in cids)

\* Iterator::map_while over the capabilities: the parsed capabilities up to
\* the first that does not parse
RECURSIVE map_while_parse(_, _)
map_while_parse(capabilities, i) ==
    IF i > Len(capabilities)
    THEN <<>>
    ELSE LET parsed == parse_capability("General", capabilities[i])
         IN  IF parsed.ok
             THEN <<parsed.view>> \o map_while_parse(capabilities, i + 1)
             ELSE <<>>

\* the merge loop: capability infos are popped from the end of the list;
\* one that a remaining info enables hands its originators to the first
\* such info, any other is pushed to merged
RECURSIVE merge(_, _)
merge(self_capability_infos, merged_capability_infos) ==
    IF self_capability_infos = <<>>
    THEN merged_capability_infos
    ELSE LET n == Len(self_capability_infos)
             capability_info == self_capability_infos[n]
             remaining == SubSeq(self_capability_infos, 1, n - 1)
             enabling == {i \in 1..(n - 1) :
                             enables(remaining[i].capability, capability_info.capability)}
         IN  IF enabling # {}
             THEN LET k == CHOOSE i \in enabling : \A j \in enabling : i <= j
                  IN  merge([remaining EXCEPT ![k].originators =
                                @ \cup capability_info.originators],
                            merged_capability_infos)
             ELSE merge(remaining, Append(merged_capability_infos, capability_info))

RECURSIVE reduce_capabilities(_)
ancestral_capability_infos(self) ==
    LET reduce(ancestor_chain) ==
            IF to_cid(ancestor_chain.ucan) \in self.redelegations
            THEN <<>>
            ELSE reduce_capabilities(ancestor_chain)
    IN  flat_map(reduce, self.proofs, 1)

\* A mutation of the redelegated set: the entries keep the proof's window.
redelegated_capability_infos_unattenuated(self) ==
    LET reduce(redelegation_cid) ==
            LET Is(proof) == to_cid(proof.ucan) = redelegation_cid
                proof_chain == find(self.proofs, Is)
            IN  IF proof_chain # {}
                THEN reduce_capabilities(CHOOSE chain \in proof_chain : TRUE)
                ELSE <<>>
    IN  flat_map(reduce, iter(self.redelegations), 1)

redelegated_capability_infos(self) ==
    LET reduce(redelegation_cid) ==
            LET Is(proof) == to_cid(proof.ucan) = redelegation_cid
                proof_chain == find(self.proofs, Is)
                attenuate(info) == [info EXCEPT !.not_before = self.ucan.not_before,
                                                !.expires_at = self.ucan.expires_at]
            IN  IF proof_chain # {}
                THEN map(attenuate,
                         reduce_capabilities(CHOOSE chain \in proof_chain : TRUE))
                ELSE <<>>
    IN  flat_map(reduce, iter(self.redelegations), 1)

\* A mutation of the self set: a capability that no ancestor enables is left
\* without originators.
self_capability_infos_unclaimed(self) ==
    LET self_capabilities == map_while_parse(self.ucan.capabilities, 1)
        ancestral == ancestral_capability_infos(self)
        own(capability) ==
            CapabilityInfo({self.ucan.issuer}, self.ucan.not_before,
                           self.ucan.expires_at, capability)
        attributed(capability) ==
            CapabilityInfo(UNION {ancestral[i].originators :
                                    i \in {j \in 1..Len(ancestral) :
                                             enables(ancestral[j].capability, capability)}},
                           self.ucan.not_before, self.ucan.expires_at, capability)
    IN  IF Len(self.proofs) = 0
        THEN map(own, self_capabilities)
        ELSE map(attributed, self_capabilities)

self_capability_infos(self) ==
    LET self_capabilities == map_while_parse(self.ucan.capabilities, 1)
        ancestral == ancestral_capability_infos(self)
        own(capability) ==
            CapabilityInfo({self.ucan.issuer}, self.ucan.not_before,
                           self.ucan.expires_at, capability)
        attributed(capability) ==
            LET originators ==
                    UNION {ancestral[i].originators :
                             i \in {j \in 1..Len(ancestral) :
                                      enables(ancestral[j].capability, capability)}}
            IN  CapabilityInfo(IF originators = {} THEN {self.ucan.issuer}
                                                   ELSE originators,
                               self.ucan.not_before, self.ucan.expires_at, capability)
    IN  IF Len(self.proofs) = 0
        THEN map(own, self_capabilities)
        ELSE map(attributed, self_capabilities)

\* A mutation of reduce_capabilities: the entries of the proofs that are
\* not redelegated are returned too.
reduce_capabilities_inheriting(self) ==
    merge(self_capability_infos(self) \o redelegated_capability_infos(self)
              \o ancestral_capability_infos(self), <<>>)

reduce_capabilities(self) ==
    merge(self_capability_infos(self) \o redelegated_capability_infos(self), <<>>)

(***************************************************************************)
(* verify (src/src/ucan_functions.rs)                                      *)
(***************************************************************************)
\* TinyTemplate: the piece "{uid}" of a template is the value of the field
\* uid of the context
Placeholders == {"{uid}"}

field(piece) == CASE piece = "{uid}" -> "uid"

\* TinyTemplate::render: a field that the context lacks, or whose value is
\* an object, is an error
RECURSIVE render(_, _)
render(template, facts) ==
    IF template = <<>>
    THEN [ok |-> TRUE, s |-> <<>>]
    ELSE LET piece == Head(template)
             rest == render(Tail(template), facts)
             printable == /\ contains_key(facts, field(piece))
                          /\ value_of(facts, field(piece)).kind # "object"
         IN  IF ~rest.ok
             THEN rest
             ELSE IF piece \notin Placeholders
             THEN [ok |-> TRUE, s |-> <<piece>> \o rest.s]
             ELSE IF printable
             THEN [ok |-> TRUE, s |-> value_of(facts, field(piece)).s \o rest.s]
             ELSE [ok |-> FALSE, s |-> <<>>]

\* internal_verify_ucan, the templates of an object caveat: a member whose
\* value is a string with a '{' is rendered
render_caveat(caveat, facts) ==
    LET is_template(value) ==
            value.kind = "string" /\ \E i \in 1..Len(value.s) : value.s[i] \in Placeholders
        rendered(member) ==
            IF is_template(member[2])
            THEN <<member[1], String(render(member[2].s, facts).s)>>
            ELSE member
    IN  IF caveat.t # "obj"
        THEN [ok |-> TRUE, caveat |-> caveat]
        ELSE IF \E member \in caveat.kv :
                    is_template(member[2]) /\ ~render(member[2].s, facts).ok
        THEN [ok |-> FALSE, caveat |-> caveat]
        ELSE [ok |-> TRUE, caveat |-> Obj({rendered(member) : member \in caveat.kv})]

RECURSIVE merge_facts(_, _)
RECURSIVE merge_facts_of(_, _, _)
\* merge_facts, the loop over chain.proofs()
merge_facts_of(proofs, i, facts) ==
    IF i > Len(proofs)
    THEN facts
    ELSE merge_facts_of(proofs, i + 1, merge_facts(proofs[i], facts))

\* A mutation of merge_facts: the fact of a token further down replaces the
\* fact of the same key.
merge_facts_last_wins(chain, facts) ==
    merge_facts_of(chain.proofs, 1,
        {item \in facts : ~contains_key(chain.ucan.facts, item[1])} \cup chain.ucan.facts)

\* merge_facts: a fact is taken unless its key is there already
merge_facts(chain, facts) ==
    merge_facts_of(chain.proofs, 1,
        facts \cup {item \in chain.ucan.facts : ~contains_key(facts, item[1])})

RECURSIVE merge_cids(_, _)
RECURSIVE merge_cids_of(_, _, _)
\* merge_cids, the loop over chain.proofs()
merge_cids_of(proofs, i, cids) ==
    IF i > Len(proofs)
    THEN cids
    ELSE merge_cids_of(proofs, i + 1, merge_cids(proofs[i], cids))

merge_cids(chain, cids) ==
    LET cid == to_cid(chain.ucan)
    IN  merge_cids_of(chain.proofs, 1,
            IF \E i \in 1..Len(cids) : cids[i] = cid THEN cids ELSE Append(cids, cid))

\* Capabilities::try_from(Vec<Capability>) (capability/data.rs, not part of
\* the sources at hand; from the specification's nested map form): the
\* caveats of each resource and ability, in the order of the capabilities
Capabilities_try_from(capabilities) ==
    LET keys == {<<capabilities[i].resource, capabilities[i].ability>> :
                    i \in 1..Len(capabilities)}
        caveats(key) ==
            LET of_key(capability) ==
                    IF <<capability.resource, capability.ability>> = key
                    THEN Caveat_try_from(capability.caveat).items
                    ELSE <<>>
            IN  flat_map(of_key, capabilities, 1)
    IN  {<<key[1], key[2], caveats(key)>> : key \in keys}

VerifyOptions(root_issuer, audience, required_capabilities, required_facts, known_tokens) ==
    [root_issuer |-> root_issuer, audience |-> audience,
     required_capabilities |-> required_capabilities,
     required_facts |-> required_facts, known_tokens |-> known_tokens]

\* struct VerifyResponse; facts is an Option<FactsMap>, the set of at most
\* one FactsMap
VerifyResponse(capabilities, facts, cids) ==
    [ok |-> TRUE, err |-> "", about |-> <<>>,
     capabilities |-> capabilities, facts |-> facts, cids |-> cids]

\* Err(anyhow!(message, about...)) of verify
VerifyError(message, about) ==
    [ok |-> FALSE, err |-> message, about |-> about,
     capabilities |-> {}, facts |-> {}, cids |-> <<>>]

\* internal_verify_ucan, the loop over the required facts (a BTreeMap, in
\* the order of its keys)
RECURSIVE check_facts(_, _, _)
check_facts(required_facts, i, facts) ==
    IF i > Len(required_facts)
    THEN Ok
    ELSE LET required_fact == required_facts[i]
         IN  IF ~contains_key(facts, required_fact[1])
             THEN Err("no fact")
             ELSE LET fact == value_of(facts, required_fact[1])
                  IN  IF fact = String(Star)
                      THEN Err("invalid fact")
                      ELSE IF required_fact[2] = String(Star)
                      THEN check_facts(required_facts, i + 1, facts)
                      ELSE IF fact # required_fact[2]
                      THEN Err("invalid fact")
                      ELSE check_facts(required_facts, i + 1, facts)

\* the required fact at which check_facts stops
RECURSIVE failed_fact(_, _, _)
failed_fact(required_facts, i, facts) ==
    IF check_facts(SubSeq(required_facts, 1, i), 1, facts).ok
    THEN failed_fact(required_facts, i + 1, facts)
    ELSE required_facts[i][1]

\* A mutation of check_capabilities: the originators are not looked at.
RECURSIVE check_capabilities_any_originator(_, _, _, _, _)
check_capabilities_any_originator(required_capabilities, i, facts, capabilities, root_issuer) ==
    IF i > Len(required_capabilities)
    THEN Ok
    ELSE LET required_capability == required_capabilities[i]
             resource == render(required_capability.resource, facts)
             ability == render(required_capability.ability, facts)
             caveat == render_caveat(required_capability.caveat, facts)
             parsed == parse_capability("General",
                           Capability(resource.s, ability.s, caveat.caveat))
         IN  IF ~resource.ok \/ ~ability.ok \/ ~caveat.ok
             THEN Err("render")
             ELSE IF ~parsed.ok
             THEN Err("no capability")
             ELSE IF \E k \in 1..Len(capabilities) :
                        enables(capabilities[k].capability, parsed.view)
             THEN check_capabilities_any_originator(required_capabilities, i + 1,
                      facts, capabilities, root_issuer)
             ELSE Err("no capability")

\* internal_verify_ucan, the loop over the required capabilities
RECURSIVE check_capabilities(_, _, _, _, _)
check_capabilities(required_capabilities, i, facts, capabilities, root_issuer) ==
    IF i > Len(required_capabilities)
    THEN Ok
    ELSE LET required_capability == required_capabilities[i]
             resource == render(required_capability.resource, facts)
             ability == render(required_capability.ability, facts)
             caveat == render_caveat(required_capability.caveat, facts)
             parsed == parse_capability("General",
                           Capability(resource.s, ability.s, caveat.caveat))
         IN  IF ~resource.ok \/ ~ability.ok \/ ~caveat.ok
             THEN Err("render")
             ELSE IF ~parsed.ok
             THEN Err("no capability")
             ELSE IF \E k \in 1..Len(capabilities) :
                        /\ enables(capabilities[k].capability, parsed.view)
                        /\ root_issuer \in capabilities[k].originators
             THEN check_capabilities(required_capabilities, i + 1,
                      facts, capabilities, root_issuer)
             ELSE Err("no capability")

\* the required capability at which check_capabilities stops
RECURSIVE failed_capability(_, _, _, _, _)
failed_capability(required_capabilities, i, facts, capabilities, root_issuer) ==
    IF check_capabilities(SubSeq(required_capabilities, 1, i), 1, facts,
                          capabilities, root_issuer).ok
    THEN failed_capability(required_capabilities, i + 1, facts, capabilities, root_issuer)
    ELSE LET required_capability == required_capabilities[i]
             resource == render(required_capability.resource, facts)
             parsed == parse_capability("General",
                           Capability(resource.s, render(required_capability.ability, facts).s,
                                      render_caveat(required_capability.caveat, facts).caveat))
         IN  <<IF parsed.ok THEN resource.s ELSE required_capability.resource,
               required_capability.ability>>

\* internal_verify_ucan from the required capabilities on: the checks of
\* the reduction, then the response
verify_capabilities(chain, config, facts, capabilities) ==
    LET enabled == check_capabilities(config.required_capabilities, 1, facts,
                                      capabilities, config.root_issuer)
    IN  IF enabled.ok
        THEN VerifyResponse(
                 Capabilities_try_from(
                     [k \in 1..Len(capabilities) |->
                         Capability_from(capabilities[k].capability)]),
                 IF facts # {} THEN {facts} ELSE {}, merge_cids(chain, <<>>))
        ELSE IF enabled.err = "render"
        THEN VerifyError(enabled.err, <<>>)
        ELSE VerifyError(enabled.err,
                 failed_capability(config.required_capabilities, 1, facts,
                                   capabilities, config.root_issuer))

\* internal_verify_ucan from the merged facts on: the required facts, the
\* removal of "prf" and the reduction
verify_facts(chain, config, merged) ==
    LET required == check_facts(config.required_facts, 1, merged)
    IN  IF required.ok
        THEN verify_capabilities(chain, config, {item \in merged : item[1] # "prf"},
                                 reduce_capabilities(chain))
        ELSE VerifyError(required.err,
                         <<failed_fact(config.required_facts, 1, merged)>>)

\* A mutation of verify_chain: the audience is looked at after the required
\* facts and capabilities.
verify_chain_audience_last(chain, config) ==
    IF ~chain.ok
    THEN VerifyError(chain.err, <<>>)
    ELSE LET checked == verify_facts(chain.chain, config,
                                     merge_facts(chain.chain, chain.chain.ucan.facts))
         IN  IF ~checked.ok
             THEN checked
             ELSE IF chain.chain.ucan.audience # config.audience
             THEN VerifyError("invalid audience", <<>>)
             ELSE checked

\* internal_verify_ucan from the chain on: the audience and the facts
verify_chain(chain, config) ==
    IF ~chain.ok
    THEN VerifyError(chain.err, <<>>)
    ELSE IF chain.chain.ucan.audience # config.audience
    THEN VerifyError("invalid audience", <<>>)
    ELSE verify_facts(chain.chain, config,
                      merge_facts(chain.chain, chain.chain.ucan.facts))

\* internal_verify_ucan: the store holds the known tokens, and now is the
\* clock that Ucan::validate reads when it is given no time
internal_verify_ucan(token, config, now) ==
    verify_chain(from_ucan(Ucan_try_from(token), now, config.known_tokens), config)

(***************************************************************************)
(* The builder (builder.rs).  An Option<&K> or Option<String> is the set   *)
(* of at most one value; an Option<u64> is None or the number.  A builder  *)
(* method takes the builder and returns the builder it leaves.             *)
(***************************************************************************)
\* UcanBuilder::default
UcanBuilder_default ==
    [issuer |-> {}, audience |-> {}, capabilities |-> <<>>, lifetime |-> None,
     expiration |-> None, not_before |-> None, facts |-> {}, proofs |-> <<>>,
     add_nonce |-> FALSE, add_proof_facts |-> FALSE]

\* struct Signable
Signable(issuer, audience, capabilities, expiration, not_before_time, facts, proofs, add_nonce) ==
    [issuer |-> issuer, audience |-> audience, capabilities |-> capabilities,
     expiration |-> expiration, not_before |-> not_before_time, facts |-> facts,
     proofs |-> proofs, add_nonce |-> add_nonce]

NoSignable == Signable("", "", <<>>, None, None, {}, <<>>, FALSE)

\* FactsMap::insert: the value of a key that is present is replaced
insert(facts, key, value) == {e \in facts : e[1] # key} \cup {<<key, value>>}

\* FactsMap::extend: the entries are inserted in their order
RECURSIVE extend(_, _, _)
extend(facts, entries, i) ==
    IF i > Len(entries) THEN facts
    ELSE extend(insert(facts, entries[i][1], entries[i][2]), entries, i + 1)

issued_by(self, issuer) == [self EXCEPT !.issuer = {issuer}]

for_audience(self, audience) == [self EXCEPT !.audience = {audience}]

with_lifetime(self, seconds) == [self EXCEPT !.lifetime = seconds]

with_expiration(self, timestamp) == [self EXCEPT !.expiration = timestamp]

not_before(self, timestamp) == [self EXCEPT !.not_before = timestamp]

with_fact(self, key, value) == [self EXCEPT !.facts = insert(@, key, value)]

with_facts(self, entries) == [self EXCEPT !.facts = extend(@, entries, 1)]

with_nonce(self) == [self EXCEPT !.add_nonce = TRUE]

with_add_proof_facts(self, add_proof_facts) ==
    [self EXCEPT !.add_proof_facts = add_proof_facts]

\* UcanBuilder::insert_proof: the CID is pushed; with add_proof_facts the
\* token goes under facts["prf"] when that value is an object
insert_proof(self, proof) ==
    LET pushed == [self EXCEPT !.proofs = Append(@, proof)]
        facts == IF contains_key(self.facts, "prf") THEN self.facts
                 ELSE insert(self.facts, "prf", PrfObject({}))
        prf_map == value_of(facts, "prf")
    IN  IF self.add_proof_facts
        THEN [pushed EXCEPT !.facts =
                 IF prf_map.kind = "object"
                 THEN insert(facts, "prf", PrfObject(prf_map.prf \cup {proof}))
                 ELSE facts]
        ELSE pushed

witnessed_by(self, authority) == insert_proof(self, to_cid(authority))

RECURSIVE with_proofs(_, _, _)
with_proofs(self, proofs, i) ==
    IF i > Len(proofs) THEN self
    ELSE with_proofs(witnessed_by(self, proofs[i]), proofs, i + 1)

claiming_capability(self, capability) ==
    [self EXCEPT !.capabilities = Append(@, capability)]

claiming_capabilities(self, capabilities) ==
    [self EXCEPT !.capabilities = @ \o capabilities]

\* UcanBuilder::delegating_from: the proof, and the capability ucan:<cid>
\* ucan/* of ProofDelegationSemantics
delegating_from(self, authority) ==
    LET proof == to_cid(authority)
        capability == parse("Delegate", <<"ucan", ":", proof>>, Delegate, NoCaveat)
    IN  [insert_proof(self, proof) EXCEPT
            !.capabilities = Append(@, Capability_from(capability.view))]

\* A mutation of implied_expiration: a lifetime is preferred to an explicit
\* expiration.
implied_expiration_lifetime_first(self, now_time) ==
    IF self.lifetime # None THEN now_time + self.lifetime ELSE self.expiration

\* UcanBuilder::implied_expiration; now_time is what time::now() returns
implied_expiration(self, now_time) ==
    IF self.expiration # None THEN self.expiration
    ELSE IF self.lifetime # None THEN now_time + self.lifetime ELSE None

BuildResult(ok, err, signable) ==
    [built |-> TRUE, ok |-> ok, err |-> err, signable |-> signable]

NotBuilt == [built |-> FALSE, ok |-> FALSE, err |-> "", signable |-> NoSignable]

\* A mutation of build: the audience is looked at before the issuer.
build_audience_first(self, now_time) ==
    IF self.audience = {} THEN BuildResult(FALSE, "Missing audience", NoSignable)
    ELSE IF self.issuer = {} THEN BuildResult(FALSE, "Missing issuer", NoSignable)
    ELSE BuildResult(TRUE, "",
            Signable(CHOOSE issuer \in self.issuer : TRUE,
                     CHOOSE audience \in self.audience : TRUE,
                     self.capabilities, implied_expiration(self, now_time),
                     self.not_before, self.facts, self.proofs, self.add_nonce))

\* UcanBuilder::build
build(self, now_time) ==
    IF self.issuer = {} THEN BuildResult(FALSE, "Missing issuer", NoSignable)
    ELSE IF self.audience = {} THEN BuildResult(FALSE, "Missing audience", NoSignable)
    ELSE BuildResult(TRUE, "",
            Signable(CHOOSE issuer \in self.issuer : TRUE,
                     CHOOSE audience \in self.audience : TRUE,
                     self.capabilities, implied_expiration(self, now_time),
                     self.not_before, self.facts, self.proofs, self.add_nonce))

(***************************************************************************)
(* The operations.  sign issues a token of the fields of a Signable        *)
(* (builder.rs): its proofs are CIDs of tokens that exist, and a token of  *)
(* the same content is the same token.  verify_ucan runs                   *)
(* internal_verify_ucan on a token and holds the outcome until settle_with *)
(* hands it to the promise.                                                *)
(***************************************************************************)
Idle == [op |-> "idle", contains |-> FALSE, cmp |-> "", aa |-> FALSE,
         ab |-> FALSE, bc |-> FALSE, ac |-> FALSE]

NoCall ==
    [pending |-> FALSE, token |-> "", now |-> 0,
     config |-> VerifyOptions("", "", <<>>, <<>>, {}),
     result |-> VerifyError("", <<>>)]

\* no verify call runs side by side
NoJobs == <<>>

NoProbe ==
    [a |-> Capability(<<>>, <<>>, NoCaveat), b |-> Capability(<<>>, <<>>, NoCaveat),
     c |-> Capability(<<>>, <<>>, NoCaveat)]

sign(Signables, max) ==
    /\ ~call.pending
    /\ Len(tokens) < max
    /\ Len(tokens) < Len(Cids)
    /\ \E signable \in Signables :
          /\ \A i \in 1..Len(signable.proofs) : signable.proofs[i] \in Issued
          /\ \A k \in 1..Len(tokens) : tokens[k] # signable
          /\ tokens' = Append(tokens, signable)
    /\ UNCHANGED <<call, probe, verdict, ucan_builder, build_result, calls, jobs>>

verify_ucan(Options, Clock) ==
    /\ ~call.pending
    /\ \E token \in Issued, config \in Options, now \in Clock :
          call' = [pending |-> TRUE, token |-> token, now |-> now, config |-> config,
                   result |-> internal_verify_ucan(token, config, now)]
    /\ UNCHANGED <<tokens, probe, verdict, ucan_builder, build_result, calls, jobs>>

settle_with ==
    /\ call.pending
    /\ call' = NoCall
    /\ UNCHANGED <<tokens, probe, verdict, ucan_builder, build_result, calls, jobs>>

(***************************************************************************)
(* Verify calls side by side.  Each verify_ucan call spawns a task on the  *)
(* runtime; the task makes a MemoryStore of its own, writes the known      *)
(* tokens to it one by one, builds and checks the chain against it and     *)
(* settles its promise.  The tasks take their steps in any order.          *)
(***************************************************************************)
NoJob ==
    [pc |-> "idle", token |-> "", now |-> 0,
     config |-> VerifyOptions("", "", <<>>, <<>>, {}),
     store |-> {}, result |-> VerifyError("", <<>>)]

\* A mutation of store_of: one store for all the tasks.
store_shared(j) == UNION {jobs[k].store : k \in DOMAIN jobs}

\* the store a task reads: the MemoryStore::default() of its own call
store_of(j) == jobs[j].store

\* verify_ucan: the arguments are taken and the task is spawned
spawn(j, Options, Clock) ==
    /\ jobs[j].pc = "idle"
    /\ \E token \in Issued, config \in Options, now \in Clock :
          jobs' = [jobs EXCEPT ![j] = [NoJob EXCEPT !.pc = "write", !.token = token,
                                                   !.now = now, !.config = config]]
    /\ UNCHANGED <<tokens, call, probe, verdict, ucan_builder, build_result, calls>>

\* internal_verify_ucan, one turn of the loop over the known tokens
write_token(j) ==
    /\ jobs[j].pc = "write"
    /\ \E proof \in jobs[j].config.known_tokens \ jobs[j].store :
          jobs' = [jobs EXCEPT ![j].store = @ \cup {proof}]
    /\ UNCHANGED <<tokens, call, probe, verdict, ucan_builder, build_result, calls>>

\* internal_verify_ucan from try_from_token_string on, with the known
\* tokens written
try_from_token_string(j) ==
    /\ jobs[j].pc = "write"
    /\ jobs[j].store = jobs[j].config.known_tokens
    /\ jobs' = [jobs EXCEPT ![j].pc = "done",
                            ![j].result =
                                verify_chain(from_ucan(Ucan_try_from(jobs[j].token),
                                                       jobs[j].now, store_of(j)),
                                             jobs[j].config)]
    /\ UNCHANGED <<tokens, call, probe, verdict, ucan_builder, build_result, calls>>

\* deferred.settle_with: the promise of the call is settled
job_settle_with(j) ==
    /\ jobs[j].pc = "done"
    /\ jobs' = [jobs EXCEPT ![j] = NoJob]
    /\ UNCHANGED <<tokens, call, probe, verdict, ucan_builder, build_result, calls>>

(***************************************************************************)
(* The link specification: tokens of every lifetime between four parties,  *)
(* each claiming one capability, and verify calls at two times with every  *)
(* token known.                                                            *)
(***************************************************************************)
MaxTokens == 3

Alice == "did:key:alice"

Bob == "did:key:bob"

Carol == "did:key:carol"

Dan == "did:key:dan"

\* every sequence of distinct CIDs, of at most two
ProofLists ==
    {<<>>} \cup {<<c>> : c \in CidStrings}
           \cup {pair \in CidStrings \X CidStrings : pair[1] # pair[2]}

LinkWindows ==
    {<<None, None>>, <<None, 1000>>, <<None, 2000>>, <<100, 1000>>, <<200, 1000>>}

LinkPairs == {<<Alice, Bob>>, <<Bob, Carol>>, <<Carol, Dan>>}

LinkSignables ==
    {UcanPayload(pair[1], pair[2], window[1], window[2],
                 <<Capability(<<"api", ":", "user", "/", "1">>, <<"user", "/", "post">>,
                              NoCaveat)>>,
                 proofs, {}) :
        pair \in LinkPairs, window \in LinkWindows, proofs \in ProofLists}

LinkOptions == {VerifyOptions(Alice, Dan, <<>>, <<>>, Issued)}

LinkClock == {500, 1500}

ChainInit ==
    /\ tokens = <<>>
    /\ call = NoCall
    /\ probe = NoProbe
    /\ verdict = Idle
    /\ ucan_builder = UcanBuilder_default
    /\ build_result = NotBuilt
    /\ calls = <<>>
    /\ jobs = NoJobs

LinkSign == sign(LinkSignables, MaxTokens)

LinkVerify == verify_ucan(LinkOptions, LinkClock)

LinkNext == LinkSign \/ LinkVerify \/ settle_with

SpecLink == ChainInit /\ [][LinkNext]_vars

(***************************************************************************)
(* The attenuation specification: a grant and its delegation with caveats  *)
(* and facts, and verify calls of every root issuer, audience, required    *)
(* capabilities and required facts.                                        *)
(***************************************************************************)
MaxGrants == 2

Send(caveat) == Capability(<<"mailto", ":", "x">>, <<"msg", "/", "send">>, caveat)

Post(resource) == Capability(<<"api", ":">> \o resource, <<"user", "/", "post">>, NoCaveat)

Uid1 == <<"uid", String(<<"1">>)>>

AttenuateSignables ==
    {UcanPayload(header[1], header[2], None, header[3], capabilities, proofs, facts) :
        header \in {<<Alice, Bob, 1000>>, <<Bob, Carol, 500>>},
        capabilities \in {<<Send(Draft)>>, <<Send(DraftTopic)>>, <<Send(NoCaveat)>>,
                          <<Post(<<"user", "/", "1">>)>>},
        proofs \in ProofLists,
        facts \in {{}, {Uid1}}}

AttenuateOptions ==
    {VerifyOptions(root_issuer, audience, required_capabilities, required_facts, Issued) :
        root_issuer \in {Alice, Bob},
        audience \in {Bob, Carol},
        required_capabilities \in {<<>>, <<Send(DraftTopic)>>, <<Send(NoCaveat)>>,
                                   <<Post(<<"user", "/", "{uid}">>)>>,
                                   <<Post(<<"user", "/", "{uid}">>), Post(<<"user", "/", "*">>)>>},
        required_facts \in {<<>>, <<Uid1>>}}

AttenuateSign == sign(AttenuateSignables, MaxGrants)

AttenuateVerify == verify_ucan(AttenuateOptions, {100})

AttenuateNext == AttenuateSign \/ AttenuateVerify \/ settle_with

SpecAttenuate == ChainInit /\ [][AttenuateNext]_vars

(***************************************************************************)
(* The reduction specification: grants between four parties, delegations   *)
(* that claim or redelegate them, and verify calls on every token.         *)
(***************************************************************************)
DelegateAll == Capability(<<"ucan", ":", "*">>, <<"ucan", "/", "*">>, NoCaveat)

DocsRead == Capability(<<"api", ":", "docs", "/", "*">>, <<"docs", "/", "read">>, NoCaveat)

\* a capability that no semantics parses: its resource is no URL
NoUrl == Capability(<<"nourl">>, <<"user", "/", "post">>, NoCaveat)

ReduceSignables ==
    {UcanPayload(header[1], header[2], None, header[3], capabilities, proofs, {}) :
        header \in {<<Alice, Bob, 1000>>, <<Dan, Bob, 1000>>, <<Bob, Carol, 500>>,
                    <<Carol, Dan, 500>>},
        capabilities \in {<<DocsRead>>, <<DelegateAll>>,
                          <<Post(<<"user", "/", "1">>)>>, <<Post(<<"user", "/", "2">>)>>,
                          <<Post(<<"user", "/", "1">>), Post(<<"user", "/", "*">>), DelegateAll>>,
                          <<NoUrl, Post(<<"user", "/", "1">>)>>},
        proofs \in ProofLists}

ReduceOptions == {VerifyOptions(Alice, Carol, <<>>, <<>>, Issued)}

ReduceSign == sign(ReduceSignables, MaxTokens)

ReduceVerify == verify_ucan(ReduceOptions, {100})

ReduceNext == ReduceSign \/ ReduceVerify \/ settle_with

SpecReduce == ChainInit /\ [][ReduceNext]_vars

(***************************************************************************)
(* The redelegation specification: grants, and delegations that name the   *)
(* proofs they redelegate by a selector of every kind.                     *)
(***************************************************************************)
Select(resource) == Capability(resource, Delegate, NoCaveat)

\* the selector `ucan://<did>/*` and `ucan://<did>/<scheme>`
UcanDid(did) == <<"ucan", ":", "//", did, "/", "*">>

UcanDidScheme(did, scheme) == <<"ucan", ":", "//", did, "/", scheme>>

UcanCid(cid) == <<"ucan", ":", cid>>

DIDs == {Alice, Bob, Carol, Dan}

RedelegateSignables ==
    {UcanPayload(pair[1], pair[2], None, None, capabilities, proofs, {}) :
        pair \in LinkPairs,
        capabilities \in
            {<<Post(<<"user", "/", "1">>)>>, <<Post(<<"user", "/", "2">>)>>,
             <<Select(UcanCid("bafy1"))>>, <<Select(UcanDid(Alice))>>,
             <<Select(UcanDidScheme(Alice, "api"))>>,
             <<Select(<<"ucan", ":", ".", "/", "*">>)>>, <<DelegateAll>>,
             <<Capability(<<"ucan", ":", "*">>, <<"user", "/", "post">>, NoCaveat)>>,
             <<Post(<<"user", "/", "2">>), Select(UcanDid(Alice))>>},
        proofs \in ProofLists}

RedelegateOptions == {VerifyOptions(Alice, Dan, <<>>, <<>>, Issued)}

RedelegateSign == sign(RedelegateSignables, MaxTokens)

RedelegateVerify == verify_ucan(RedelegateOptions, {100})

RedelegateNext == RedelegateSign \/ RedelegateVerify \/ settle_with

SpecRedelegate == ChainInit /\ [][RedelegateNext]_vars

(***************************************************************************)
(* The resolution specification: tokens that carry some of their proofs    *)
(* inline, and verify calls with every choice of known tokens.             *)
(***************************************************************************)
\* the facts of a token that carries the proofs of the CIDs inline
Inline(cids) == IF cids = {} THEN {} ELSE {<<"prf", PrfObject(cids)>>}

ResolveSignables ==
    {UcanPayload(pair[1], pair[2], None, None,
                 <<Post(<<"user", "/", "1">>)>>, proofs, Inline(cids)) :
        pair \in LinkPairs,
        proofs \in ProofLists,
        cids \in SUBSET {"bafy1", "bafy2"}}

ResolveOptions ==
    {VerifyOptions(Alice, Dan, <<>>, <<>>, known_tokens) : known_tokens \in SUBSET Issued}

\* a token carries inline only proofs it names (builder.rs insert_proof)
ResolveSign ==
    sign({signable \in ResolveSignables :
             \A entry \in signable.facts :
                entry[2].prf \subseteq {signable.proofs[k] : k \in 1..Len(signable.proofs)}},
         MaxTokens)

ResolveVerify == verify_ucan(ResolveOptions, {100})

ResolveNext == ResolveSign \/ ResolveVerify \/ settle_with

SpecResolve == ChainInit /\ [][ResolveNext]_vars

(***************************************************************************)
(* The validation specification: tokens of several lifetimes, some with a  *)
(* delegation that cannot be redelegated, and verify calls before, within  *)
(* and after the lifetimes.                                                *)
(***************************************************************************)
ValidateWindows == {<<None, None>>, <<None, 1000>>, <<200, None>>}

ValidateSignables ==
    {UcanPayload(pair[1], pair[2], window[1], window[2], capabilities, proofs, {}) :
        pair \in LinkPairs,
        window \in ValidateWindows,
        capabilities \in {<<Post(<<"user", "/", "1">>)>>,
                          <<Select(UcanDidScheme(Alice, "api"))>>},
        proofs \in ProofLists}

ValidateOptions == {VerifyOptions(Alice, Dan, <<>>, <<>>, Issued)}

ValidateClock == {100, 500, 1500}

ValidateSign == sign(ValidateSignables, MaxTokens)

ValidateVerify == verify_ucan(ValidateOptions, ValidateClock)

ValidateNext == ValidateSign \/ ValidateVerify \/ settle_with

SpecValidate == ChainInit /\ [][ValidateNext]_vars

(***************************************************************************)
(* The builder specification: a builder is taken through at most MaxCalls  *)
(* method calls, in any order, and built.  calls is the log of the calls   *)
(* made; with_proofs makes a witnessed_by call for each of its proofs.     *)
(***************************************************************************)
MaxCalls == 4

BuildClock == {500, 700}

Called(op, text, number, flag) ==
    [op |-> op, text |-> text, number |-> number, flag |-> flag]

Call(entries, next) ==
    /\ ~build_result.built
    /\ Len(calls) + Len(entries) <= MaxCalls
    /\ ucan_builder' = next
    /\ calls' = calls \o entries
    /\ UNCHANGED <<build_result, tokens, call, probe, verdict, jobs>>

BuildInit ==
    /\ tokens = <<UcanPayload(Alice, Bob, None, None, <<Post(<<"user", "/", "1">>)>>,
                              <<>>, {}),
                  UcanPayload(Carol, Bob, None, None, <<Post(<<"user", "/", "2">>)>>,
                              <<>>, {})>>
    /\ call = NoCall
    /\ probe = NoProbe
    /\ verdict = Idle
    /\ ucan_builder = UcanBuilder_default
    /\ build_result = NotBuilt
    /\ calls = <<>>
    /\ jobs = NoJobs

CallIssuedBy ==
    \E issuer \in {Bob} :
        Call(<<Called("issued_by", issuer, 0, FALSE)>>, issued_by(ucan_builder, issuer))

CallForAudience ==
    \E audience \in {Carol, Dan} :
        Call(<<Called("for_audience", audience, 0, FALSE)>>,
             for_audience(ucan_builder, audience))

CallWithLifetime ==
    \E seconds \in {100} :
        Call(<<Called("with_lifetime", "", seconds, FALSE)>>,
             with_lifetime(ucan_builder, seconds))

CallWithExpiration ==
    \E timestamp \in {1000, 2000} :
        Call(<<Called("with_expiration", "", timestamp, FALSE)>>,
             with_expiration(ucan_builder, timestamp))

CallNotBefore ==
    \E timestamp \in {50} :
        Call(<<Called("not_before", "", timestamp, FALSE)>>,
             not_before(ucan_builder, timestamp))

CallWithFact ==
    \E key \in {"prf", "uid"} :
        Call(<<Called("with_fact", key, 0, FALSE)>>,
             with_fact(ucan_builder, key, String(<<"1">>)))

CallWithFacts ==
    Call(<<Called("with_facts", "uid", 0, FALSE)>>,
         with_facts(ucan_builder, <<<<"uid", String(<<"2">>)>>,
                                    <<"uid", String(<<"3">>)>>>>))

CallWithNonce == Call(<<Called("with_nonce", "", 0, FALSE)>>, with_nonce(ucan_builder))

CallWithAddProofFacts ==
    \E add_proof_facts \in BOOLEAN :
        Call(<<Called("with_add_proof_facts", "", 0, add_proof_facts)>>,
             with_add_proof_facts(ucan_builder, add_proof_facts))

CallWitnessedBy ==
    \E k \in 1..Len(tokens) :
        Call(<<Called("witnessed_by", Cids[k], 0, FALSE)>>,
             witnessed_by(ucan_builder, tokens[k]))

CallWithProofs ==
    Call(<<Called("witnessed_by", Cids[1], 0, FALSE),
           Called("witnessed_by", Cids[2], 0, FALSE)>>,
         with_proofs(ucan_builder, tokens, 1))

CallClaimingCapability ==
    Call(<<Called("claiming_capability", "", 1, FALSE)>>,
         claiming_capability(ucan_builder, Post(<<"user", "/", "1">>)))

CallClaimingCapabilities ==
    Call(<<Called("claiming_capabilities", "", 2, FALSE)>>,
         claiming_capabilities(ucan_builder, <<Post(<<"user", "/", "1">>),
                                               Post(<<"user", "/", "2">>)>>))

CallDelegatingFrom ==
    Call(<<Called("delegating_from", Cids[1], 1, FALSE)>>,
         delegating_from(ucan_builder, tokens[1]))

CallBuild ==
    /\ ~build_result.built
    /\ \E now_time \in BuildClock :
          /\ build_result' = build(ucan_builder, now_time)
          /\ calls' = Append(calls, Called("build", "", now_time, FALSE))
    /\ UNCHANGED <<ucan_builder, tokens, call, probe, verdict, jobs>>

BuildNext ==
    \/ CallIssuedBy \/ CallForAudience \/ CallWithLifetime \/ CallWithExpiration
    \/ CallNotBefore \/ CallWithFact \/ CallWithFacts \/ CallWithNonce
    \/ CallWithAddProofFacts \/ CallWitnessedBy \/ CallWithProofs
    \/ CallClaimingCapability \/ CallClaimingCapabilities \/ CallDelegatingFrom
    \/ CallBuild

SpecBuild == BuildInit /\ [][BuildNext]_vars

(***************************************************************************)
(* The facts specification: up to MaxFactTokens tokens with facts of the   *)
(* same and of different keys, each citing proofs issued for its issuer,   *)
(* so that the chains are a line, or a root of two proofs of which the     *)
(* first has a proof of its own.                                           *)
(***************************************************************************)
MaxFactTokens == 4

Uid2 == <<"uid", String(<<"2">>)>>

Tag1 == <<"tag", String(<<"1">>)>>

FactSets == {{}, {Uid1}, {Uid2, Tag1}, {<<"prf", PrfObject({})>>}}

FactsSignables ==
    {UcanPayload(pair[1], pair[2], None, None, <<Post(<<"user", "/", "1">>)>>,
                 proofs, facts) :
        pair \in LinkPairs, proofs \in ProofLists, facts \in FactSets}

FactsOptions == {VerifyOptions(Alice, Dan, <<>>, <<>>, Issued)}

FactsSign ==
    sign({signable \in FactsSignables :
             \A i \in 1..Len(signable.proofs) :
                /\ signable.proofs[i] \in Issued
                /\ Ucan_try_from(signable.proofs[i]).audience = signable.issuer},
         MaxFactTokens)

FactsVerify == verify_ucan(FactsOptions, {100})

FactsNext == FactsSign \/ FactsVerify \/ settle_with

SpecFacts == ChainInit /\ [][FactsNext]_vars

(***************************************************************************)
(* The merge specification: tokens that claim nothing, one capability, a   *)
(* broad and a narrow capability in either order, or a redelegation, each  *)
(* citing proofs issued for its issuer, and verify calls of every root     *)
(* issuer.                                                                 *)
(***************************************************************************)
\* a narrow capability and a broad one that enables it
Narrow == Post(<<"user", "/", "1">>)

Broad == Capability(<<"api", ":", "user", "/", "1">>, <<"user", "/", "*">>, NoCaveat)

MergeSignables ==
    {UcanPayload(pair[1], pair[2], None, None, capabilities, proofs, {}) :
        pair \in LinkPairs,
        capabilities \in {<<>>, <<Narrow>>, <<Broad>>, <<Broad, Narrow>>,
                          <<Narrow, Broad>>, <<DelegateAll>>},
        proofs \in ProofLists}

MergeOptions ==
    {VerifyOptions(root_issuer, audience, required_capabilities, <<>>, Issued) :
        root_issuer \in {Alice, Bob, Carol},
        audience \in {Carol, Dan},
        required_capabilities \in {<<>>, <<Broad>>}}

MergeSign ==
    sign({signable \in MergeSignables :
             \A i \in 1..Len(signable.proofs) :
                /\ signable.proofs[i] \in Issued
                /\ Ucan_try_from(signable.proofs[i]).audience = signable.issuer},
         MaxTokens)

MergeVerify == verify_ucan(MergeOptions, {100})

MergeNext == MergeSign \/ MergeVerify \/ settle_with

SpecMerge == ChainInit /\ [][MergeNext]_vars

(***************************************************************************)
(* The concurrency specification: MaxJobs verify calls run side by side on *)
(* a line of three tokens, each call with known tokens of its own.         *)
(***************************************************************************)
MaxJobs == 2

JobsOptions ==
    {VerifyOptions(Alice, audience, <<>>, <<>>, known_tokens) :
        audience \in {Carol, Dan}, known_tokens \in SUBSET Issued}

JobsInit ==
    /\ tokens = <<UcanPayload(Alice, Bob, None, None, <<Narrow>>, <<>>, {}),
                  UcanPayload(Bob, Carol, None, None, <<Narrow>>, <<"bafy1">>, {}),
                  UcanPayload(Carol, Dan, None, None, <<Narrow>>, <<"bafy2">>, {})>>
    /\ call = NoCall
    /\ probe = NoProbe
    /\ verdict = Idle
    /\ ucan_builder = UcanBuilder_default
    /\ build_result = NotBuilt
    /\ calls = <<>>
    /\ jobs = [j \in 1..MaxJobs |-> NoJob]

JobSpawn == \E j \in 1..MaxJobs : spawn(j, JobsOptions, {100})

JobWriteToken == \E j \in 1..MaxJobs : write_token(j)

JobVerify == \E j \in 1..MaxJobs : try_from_token_string(j)

JobSettle == \E j \in 1..MaxJobs : job_settle_with(j)

JobsNext == JobSpawn \/ JobWriteToken \/ JobVerify \/ JobSettle

SpecJobs == JobsInit /\ [][JobsNext]_vars

(***************************************************************************)
(* The semantics specification: a caller holds three capabilities and      *)
(* asks one of the comparisons of the algebra about them.                  *)
(***************************************************************************)
MaxSegments == 2

\* the strings of 1..n segments over the pieces of S, joined by "/"
RECURSIVE join(_)
join(segments) ==
    IF Len(segments) = 1
    THEN <<segments[1]>>
    ELSE <<segments[1], "/">> \o join(Tail(segments))

Paths(S, n) == {join(segs) : segs \in UNION {[1..k -> S] : k \in 1..n}}

\* the paths of the resource table of src/src/semantics.rs that are longer
TablePaths ==
    { <<"user", "/", "2">>, <<"doc", "/", "1">>,
      <<"user", "/", "1", "/", "doc", "/", "1">>,
      <<"user", "/", "1", "/", "post", "/", "1">>,
      <<"user", "/", "*", "/", "post", "/", "2">> }

SemResources ==
    {<<"api", ":">> \o path : path \in Paths({"user", "1", "*"}, MaxSegments) \cup TablePaths}
    \cup { <<"docs", ":", "user", "/", "1">>, <<"docs", ":", "*">>,
           <<"ucan", ":", "*">>, <<"ucan", ":", ".", "/", "*">>,
           <<"ucan", ":", "bafy1">>, <<"ucan", ":", "bafy2">>,
           <<"ucan", ":", "//", "alice", "/", "*">>,
           <<"ucan", ":", "//", "bob", "/", "*">>,
           <<"ucan", ":", "//", "alice", "/", "api">> }

SemAbilities ==
    Paths({"user", "post", "*"}, MaxSegments)
    \cup { <<"user", "/", "post", "/", "draft">>, <<"user", "/", "read">> }

SemCaveats ==
    { NoCaveat, Draft, DraftTopic, Scalar, Arr(<<>>),
      Arr(<<{<<"draft", Json("true")>>},
            {<<"publish", Json("true")>>, <<"topic", Json("[\"foo\"]")>>}>>) }

UserPost == <<"user", "/", "post">>

ApiUser1 == <<"api", ":", "user", "/", "1">>

\* capabilities that differ from (api:user/1, user/post, {}) in one component,
\* and a few that differ in several
SemCaps ==
    {Capability(r, UserPost, NoCaveat) : r \in SemResources}
    \cup {Capability(ApiUser1, a, NoCaveat) : a \in SemAbilities}
    \cup {Capability(ApiUser1, UserPost, c) : c \in SemCaveats}
    \cup {Capability(r, a, c) :
            r \in {<<"api", ":", "user">>, <<"api", ":", "user", "/", "*">>},
            a \in {<<"user">>, <<"user", "/", "*">>},
            c \in {Draft, DraftTopic}}

\* the third capability of a transitivity question
SemThird ==
    { Capability(<<"api", ":", "user", "/", "2">>, UserPost, NoCaveat),
      Capability(<<"api", ":", "user", "/", "1", "/", "doc", "/", "1">>, UserPost, NoCaveat),
      Capability(ApiUser1, <<"user", "/", "post", "/", "draft">>, NoCaveat),
      Capability(ApiUser1, <<"post", "/", "user">>, NoCaveat),
      Capability(ApiUser1, UserPost, DraftTopic),
      Capability(<<"api", ":", "user", "/", "*">>, <<"user", "/", "*">>, DraftTopic) }

view(capability) == parse_capability("General", capability).view

SemInit ==
    /\ probe \in [a : SemCaps, b : SemCaps, c : SemThird]
    /\ verdict = Idle
    /\ tokens = <<>>
    /\ call = NoCall
    /\ ucan_builder = UcanBuilder_default
    /\ build_result = NotBuilt
    /\ calls = <<>>
    /\ jobs = NoJobs

\* a.resource.contains(b.resource)
CallContains ==
    /\ verdict.op = "idle"
    /\ verdict' = [Idle EXCEPT !.op = "contains",
                       !.contains = Resource_contains(view(probe.a).resource,
                                                      view(probe.b).resource)]
    /\ UNCHANGED <<probe, tokens, call, ucan_builder, build_result, calls, jobs>>

\* a.ability.cmp(b.ability)
CallCmp ==
    /\ verdict.op = "idle"
    /\ verdict' = [Idle EXCEPT !.op = "cmp",
                       !.cmp = cmp(view(probe.a).ability, view(probe.b).ability)]
    /\ UNCHANGED <<probe, tokens, call, ucan_builder, build_result, calls, jobs>>

\* a.enables(a), a.enables(b), b.enables(c), a.enables(c)
CallEnables ==
    /\ verdict.op = "idle"
    /\ verdict' = [Idle EXCEPT !.op = "enables",
                       !.aa = enables(view(probe.a), view(probe.a)),
                       !.ab = enables(view(probe.a), view(probe.b)),
                       !.bc = enables(view(probe.b), view(probe.c)),
                       !.ac = enables(view(probe.a), view(probe.c))]
    /\ UNCHANGED <<probe, tokens, call, ucan_builder, build_result, calls, jobs>>

SemNext == CallContains \/ CallCmp \/ CallEnables

SpecSem == SemInit /\ [][SemNext]_vars

(***************************************************************************)
(* Claims about the algebra (checked under SpecSem).                       *)
(***************************************************************************)
ApiPath(path) == <<"api", ":">> \o path

\* a row of the resource table: held path, required path, outcome
ResourceRow(held, required, outcome) ==
    (/\ verdict.op = "contains"
     /\ probe.a.resource = ApiPath(held)
     /\ probe.b.resource = ApiPath(required)) => (verdict.contains = outcome)

\* a row of the ability table: held ability, required ability, held enables required
AbilityRow(held, required, outcome) ==
    (/\ verdict.op = "cmp"
     /\ probe.a.ability = held
     /\ probe.b.ability = required) => ((verdict.cmp # "Less") = outcome)

BothUri == /\ view(probe.a).resource.kind = "ResourceUri"
           /\ view(probe.b).resource.kind = "ResourceUri"

\* C6: enablement is transitive: whenever a enables b and b enables c, a
\* enables c (the statement of the claim; the code does not satisfy it).
C6_Transitive ==
    (verdict.op = "enables" /\ verdict.ab /\ verdict.bc) => verdict.ac

\* C7 as claimed: every capability that parses, whatever caveat value it
\* carries, enables itself.
C7_ReflexiveAnyCaveat ==
    (verdict.op = "enables" /\ parse_capability("General", probe.a).ok) => verdict.aa

\* C7 as amended: every capability that parses and whose caveat value is a
\* JSON object or an array of JSON objects enables itself.
C7_ReflexiveOnCaveats ==
    (/\ verdict.op = "enables"
     /\ parse_capability("General", probe.a).ok
     /\ probe.a.caveat.t \in {"obj", "arr"}) => verdict.aa

C7_Witness ==
    /\ verdict.op = "enables"
    /\ probe.a.resource = <<"api", ":", "user", "/", "*">>
    /\ probe.a.ability = <<"user", "/", "*">>
    /\ probe.a.caveat = DraftTopic
    /\ verdict.aa

\* C8: the resource table: for resources of equal scheme each row has the
\* documented outcome, and resources of different schemes never contain
\* each other.
C8_ResourceTable ==
    /\ ResourceRow(<<"user">>, <<"user", "/", "1">>, TRUE)
    /\ ResourceRow(<<"user", "/", "1">>, <<"user">>, FALSE)
    /\ ResourceRow(<<"user", "/", "1">>, <<"user", "/", "1">>, TRUE)
    /\ ResourceRow(<<"user", "/", "1">>, <<"user", "/", "1", "/", "doc", "/", "1">>, TRUE)
    /\ ResourceRow(<<"user", "/", "1">>, <<"user", "/", "2">>, FALSE)
    /\ ResourceRow(<<"user", "/", "1">>, <<"doc", "/", "1">>, FALSE)
    /\ ResourceRow(<<"*">>, <<"user", "/", "1">>, TRUE)
    /\ ResourceRow(<<"user", "/", "1">>, <<"*">>, FALSE)
    /\ ResourceRow(<<"user", "/", "*">>, <<"user", "/", "1">>, TRUE)
    /\ ResourceRow(<<"user", "/", "1">>, <<"user", "/", "*">>, TRUE)
    /\ ResourceRow(<<"user", "/", "1", "/", "post", "/", "1">>,
                   <<"user", "/", "*", "/", "post", "/", "2">>, FALSE)
    /\ (/\ verdict.op = "contains"
        /\ BothUri
        /\ view(probe.a).resource.scheme # view(probe.b).resource.scheme)
       => ~verdict.contains

C8_Witness ==
    /\ verdict.op = "contains"
    /\ probe.a.resource = ApiPath(<<"user", "/", "1">>)
    /\ probe.b.resource = ApiPath(<<"user", "/", "*">>)
    /\ verdict.contains

\* the rule of C9: C has no more segments than R and at every position of C
\* the two segments are equal or one of them is `*`
SegmentRule(held, required) ==
    LET c == split(held)
        r == split(required)
    IN  /\ Len(c) <= Len(r)
        /\ \A i \in 1..Len(c) : c[i] = r[i] \/ c[i] = Star \/ r[i] = Star

SameSchemeAsked ==
    /\ verdict.op = "contains"
    /\ BothUri
    /\ view(probe.a).resource.scheme = view(probe.b).resource.scheme

\* C9 as claimed: for URI-scoped resources of equal scheme, C contains R
\* exactly when the segment rule holds.
C9_SegmentRuleExact ==
    SameSchemeAsked =>
        (verdict.contains <=>
            SegmentRule(view(probe.a).resource.path, view(probe.b).resource.path))

\* C9 as amended: C contains R exactly when the segment rule holds and, if
\* R's whole path is `*`, C's whole path is `*` too.
C9_SegmentRuleButStar ==
    SameSchemeAsked =>
        (verdict.contains <=>
            /\ SegmentRule(view(probe.a).resource.path, view(probe.b).resource.path)
            /\ (view(probe.b).resource.path = Star => view(probe.a).resource.path = Star))

C9_Witness ==
    /\ verdict.op = "contains"
    /\ probe.a.resource = ApiPath(<<"user">>)
    /\ probe.b.resource = ApiPath(<<"*">>)
    /\ ~verdict.contains

\* some position holds different concrete segments in the two abilities
DifferConcretely(x, y) ==
    LET xs == split(x)
        ys == split(y)
    IN  \E i \in 1..Len(xs) :
            i <= Len(ys) /\ xs[i] # Star /\ ys[i] # Star /\ xs[i] # ys[i]

\* C10: the ability table: each row has the documented outcome of "held
\* enables required" (held >= required), and an ability does not enable one
\* that differs from it in a concrete segment.
C10_AbilityTable ==
    /\ AbilityRow(UserPost, UserPost, TRUE)
    /\ AbilityRow(UserPost, <<"user", "/", "post", "/", "draft">>, TRUE)
    /\ AbilityRow(<<"user", "/", "post", "/", "draft">>, UserPost, FALSE)
    /\ AbilityRow(<<"*">>, UserPost, TRUE)
    /\ AbilityRow(UserPost, <<"*">>, FALSE)
    /\ AbilityRow(<<"user", "/", "*">>, UserPost, TRUE)
    /\ AbilityRow(UserPost, <<"user", "/", "*">>, FALSE)
    /\ (verdict.op = "cmp" /\ DifferConcretely(probe.a.ability, probe.b.ability))
       => verdict.cmp = "Less"

C10_Witness ==
    /\ verdict.op = "cmp"
    /\ probe.a.ability = UserPost
    /\ probe.b.ability = <<"user", "/", "post", "/", "draft">>
    /\ verdict.cmp = "Greater"

\* C11: the ability comparison is a total order: cmp(a, b) is Less exactly
\* when cmp(b, a) is Greater, it is Equal exactly when a and b are the same
\* string, and so one of a >= b and b >= a holds (the statement of the
\* claim; the code does not satisfy it).
C11_TotalOrder ==
    verdict.op = "cmp" =>
       /\ (verdict.cmp = "Less") <=>
             (cmp(view(probe.b).ability, view(probe.a).ability) = "Greater")
       /\ (verdict.cmp = "Equal") <=> (probe.a.ability = probe.b.ability)
       /\ \/ ge(view(probe.a).ability, view(probe.b).ability)
          \/ ge(view(probe.b).ability, view(probe.a).ability)

\* a resource string that names a proof selection
IsSelector(resource) == resource[1] = "ucan"

UcanAll == <<"ucan", ":", "*">>

UcanTheseProofs == <<"ucan", ":", ".", "/", "*">>

\* C12: containment with proof selectors: `ucan:*` contains every selector;
\* `ucan:./*` every selector but `ucan:*`; any other selector only a selector
\* equal to it; `ucan:*` and `ucan:./*` contain every URI-scoped resource;
\* any other selector contains no URI-scoped resource; a URI-scoped resource
\* contains no selector.
C12_SelectorContainment ==
    (/\ verdict.op = "contains"
     /\ parse_capability("General", probe.a).ok
     /\ parse_capability("General", probe.b).ok) =>
       LET held == probe.a.resource
           required == probe.b.resource
           blanket == held \in {UcanAll, UcanTheseProofs}
       IN  /\ (held = UcanAll /\ IsSelector(required)) => verdict.contains
           /\ (held = UcanTheseProofs /\ IsSelector(required)) =>
                 (verdict.contains <=> required # UcanAll)
           /\ (IsSelector(held) /\ ~blanket /\ IsSelector(required)) =>
                 (verdict.contains <=> held = required)
           /\ (blanket /\ ~IsSelector(required)) => verdict.contains
           /\ (IsSelector(held) /\ ~blanket /\ ~IsSelector(required)) =>
                 ~verdict.contains
           /\ (~IsSelector(held) /\ IsSelector(required)) => ~verdict.contains

C12_Witness ==
    /\ verdict.op = "contains"
    /\ probe.a.resource = UcanTheseProofs
    /\ probe.b.resource = UcanAll
    /\ ~verdict.contains

(***************************************************************************)
(* The chain of the verify call in flight                                  *)
(***************************************************************************)
Root == Ucan_try_from(call.token)

Built == from_ucan(Root, call.now, call.config.known_tokens)

RECURSIVE Nodes(_)
Nodes(chain) ==
    {chain} \cup UNION {Nodes(chain.proofs[i]) : i \in 1..Len(chain.proofs)}

\* the tokens reachable from a token through its proofs
RECURSIVE Reachable(_)
Reachable(token) ==
    {token} \cup UNION {Reachable(Ucan_try_from(token.proofs[i])) :
                           i \in 1..Len(token.proofs)}

\* T's window lies within P's: an absent bound of P is unbounded, an absent
\* bound of T where P has that bound is not within
Within(T, P) ==
    /\ P.not_before # None => (T.not_before # None /\ T.not_before >= P.not_before)
    /\ P.expires_at # None => (T.expires_at # None /\ T.expires_at <= P.expires_at)

\* the first failure of the edges below a token, proofs in their order and
\* each proof's own edges before its edge to the token
RECURSIVE Failure(_)
RECURSIVE FailureFrom(_, _)
FailureFrom(T, i) ==
    IF i > Len(T.proofs)
    THEN ""
    ELSE LET P == Ucan_try_from(T.proofs[i])
         IN  IF Failure(P) # ""
             THEN Failure(P)
             ELSE IF P.audience # T.issuer
             THEN "Invalid UCAN link: audience does not match issuer"
             ELSE IF ~Within(T, P)
             THEN "Invalid UCAN link: lifetime exceeds attenuation"
             ELSE FailureFrom(T, i + 1)

Failure(T) == FailureFrom(T, 1)

InTime(token, now) ==
    /\ token.expires_at # None => now <= token.expires_at
    /\ token.not_before # None => now >= token.not_before

\* C4: from_ucan returns a chain only if every edge links (the proof's
\* audience is the token's issuer and the token's window lies within the
\* proof's); otherwise the build fails, and an edge failing in both fails
\* with the audience error; a proof expiring at 1000 under a token expiring
\* at 2000 fails the build.
C4_EveryEdgeLinks ==
    (call.pending /\ \A token \in Reachable(Root) : InTime(token, call.now)) =>
        /\ Built.ok <=> Failure(Root) = ""
        /\ Built.err = Failure(Root)
        /\ Built.ok =>
              \A node \in Nodes(Built.chain) :
                 /\ Len(node.proofs) = Len(node.ucan.proofs)
                 /\ \A i \in 1..Len(node.proofs) :
                       /\ node.proofs[i].ucan = Ucan_try_from(node.ucan.proofs[i])
                       /\ node.proofs[i].ucan.audience = node.ucan.issuer
                       /\ Within(node.ucan, node.proofs[i].ucan)
        /\ (\E T \in Reachable(Root) : \E i \in 1..Len(T.proofs) :
               /\ T.expires_at = 2000
               /\ Ucan_try_from(T.proofs[i]).expires_at = 1000) => ~Built.ok

C4_Witness ==
    /\ call.pending
    /\ Built.ok
    /\ \E node \in Nodes(Built.chain) :
          /\ node.ucan.issuer = Carol
          /\ node.ucan.not_before = 200
          /\ Len(node.proofs) = 1
          /\ node.proofs[1].ucan.not_before = 100
          /\ Len(node.proofs[1].proofs) = 1
          /\ node.proofs[1].proofs[1].ucan.expires_at = 2000

(***************************************************************************)
(* The reduction of the call in flight                                     *)
(***************************************************************************)
Reduced == reduce_capabilities(Built.chain)

Entries(infos) == {infos[k] : k \in 1..Len(infos)}

MergedFacts == merge_facts(Built.chain, Root.facts)

\* every required fact is among the merged facts, with the value required
\* or, where "*" is required, with any value, and no such fact is "*"
FactsMet ==
    \A i \in 1..Len(call.config.required_facts) :
       \E item \in MergedFacts :
          /\ item[1] = call.config.required_facts[i][1]
          /\ item[2] # String(Star)
          /\ \/ call.config.required_facts[i][2] = String(Star)
             \/ call.config.required_facts[i][2] = item[2]

\* a required capability with its templates rendered with the merged facts
Rendered(required) ==
    LET facts == {item \in MergedFacts : item[1] # "prf"}
    IN  parse_capability("General",
            Capability(render(required.resource, facts).s,
                       render(required.ability, facts).s,
                       render_caveat(required.caveat, facts).caveat)).view

\* one entry of the reduction enables the view and has the root issuer
\* among its originators
Granted(required_view) ==
    \E entry \in Entries(Reduced) :
       /\ enables(entry.capability, required_view)
       /\ call.config.root_issuer \in entry.originators

Required == call.config.required_capabilities

\* C1: verify succeeds only if one entry of the root token's reduction
\* enables each required capability and has rootIssuer among its
\* originators; with a required capability that no entry grants verify
\* returns an error and no response; with an empty required list a chain
\* that builds, with the right audience, verifies.
C1_RequiredCapabilities ==
    call.pending =>
       /\ call.result.ok =>
             /\ Built.ok
             /\ \A i \in 1..Len(Required) : Granted(view(Required[i]))
       /\ (Built.ok /\ \E i \in 1..Len(Required) : ~Granted(Rendered(Required[i]))) =>
             /\ ~call.result.ok
             /\ call.result.capabilities = {}
             /\ call.result.cids = <<>>
       /\ (Built.ok /\ Root.audience = call.config.audience /\ Required = <<>>) =>
             call.result.ok

\* C1 as amended: the required capability is the one rendered with the
\* merged facts, and with an empty required list a chain that builds, with
\* the right audience and every required fact met, verifies.
C1_RenderedAndFacts ==
    call.pending =>
       /\ call.result.ok =>
             /\ Built.ok
             /\ \A i \in 1..Len(Required) : Granted(Rendered(Required[i]))
       /\ (Built.ok /\ \E i \in 1..Len(Required) : ~Granted(Rendered(Required[i]))) =>
             /\ ~call.result.ok
             /\ call.result.capabilities = {}
             /\ call.result.cids = <<>>
       /\ (Built.ok /\ Root.audience = call.config.audience /\ Required = <<>> /\ FactsMet) =>
             call.result.ok

C1_Witness ==
    /\ call.pending
    /\ call.result.ok
    /\ Len(Root.proofs) = 1
    /\ Required = <<Post(<<"user", "/", "{uid}">>), Post(<<"user", "/", "*">>)>>
    /\ call.config.required_facts = <<Uid1>>
    /\ call.config.root_issuer = Alice
    /\ call.result.cids = <<"bafy2", "bafy1">>

\* the originators of an own capability of a node, from the reductions of
\* its proofs that are not redelegated
Attributed(node, capability) ==
    LET inherited ==
            UNION {Entries(reduce_capabilities(node.proofs[i])) :
                      i \in {j \in 1..Len(node.proofs) :
                               to_cid(node.proofs[j].ucan) \notin node.redelegations}}
        enabling == {entry \in inherited : enables(entry.capability, capability)}
    IN  IF Len(node.proofs) = 0 \/ enabling = {}
        THEN {node.ucan.issuer}
        ELSE UNION {entry.originators : entry \in enabling}

\* C2: reduce_capabilities attributes every own capability of a node to its
\* issuer when the node has no proofs, else to the originators of every
\* entry of its proofs not redelegated that enables the capability, or to
\* its issuer when none does, with the node's own window; where Alice
\* grants X to Bob until 1000 and Bob claims X for Carol until 500, the
\* reduction is X with originators {Alice} until 500.
C2_Attribution ==
    (call.pending /\ Built.ok) =>
       /\ \A node \in Nodes(Built.chain) :
             \A i \in 1..Len(node.ucan.capabilities) :
                parse_capability("General", node.ucan.capabilities[i]).ok =>
                   CapabilityInfo(Attributed(node, view(node.ucan.capabilities[i])),
                                  node.ucan.not_before, node.ucan.expires_at,
                                  view(node.ucan.capabilities[i]))
                      \in Entries(self_capability_infos(node))
       /\ (/\ Root.issuer = Bob
           /\ Root.expires_at = 500
           /\ Len(Root.capabilities) = 1
           /\ view(Root.capabilities[1]).resource.kind = "ResourceUri"
           /\ Len(Root.proofs) = 1
           /\ Built.chain.proofs[1].ucan.issuer = Alice
           /\ Built.chain.proofs[1].ucan.expires_at = 1000
           /\ Built.chain.proofs[1].ucan.proofs = <<>>
           /\ Built.chain.proofs[1].ucan.capabilities = Root.capabilities) =>
             Reduced = <<CapabilityInfo({Alice}, None, 500, view(Root.capabilities[1]))>>

\* C3: where the proof grants (mailto:x, msg/send) with the caveat
\* {draft: true}, a child's claim of it with {draft: true, topic: ["foo"]}
\* has the proof's originators and verifies against the proof's issuer; a
\* child's claim of it with {} has the child's issuer alone and verify
\* against the proof's issuer fails.
C3_CaveatAttenuation ==
    (/\ call.pending
     /\ Built.ok
     /\ Len(Root.proofs) = 1
     /\ Built.chain.proofs[1].ucan.capabilities = <<Send(Draft)>>
     /\ Built.chain.proofs[1].ucan.proofs = <<>>
     /\ Built.chain.proofs[1].ucan.issuer # Root.issuer) =>
       /\ Root.capabilities = <<Send(DraftTopic)>> =>
             /\ Reduced = <<CapabilityInfo({Built.chain.proofs[1].ucan.issuer},
                                Root.not_before, Root.expires_at, view(Send(DraftTopic)))>>
             /\ (/\ call.config.root_issuer = Built.chain.proofs[1].ucan.issuer
                 /\ call.config.audience = Root.audience
                 /\ Required = <<Send(DraftTopic)>>
                 /\ FactsMet) => call.result.ok
       /\ Root.capabilities = <<Send(NoCaveat)>> =>
             /\ ~enables(view(Send(Draft)), view(Send(NoCaveat)))
             /\ Reduced = <<CapabilityInfo({Root.issuer},
                                Root.not_before, Root.expires_at, view(Send(NoCaveat)))>>
             /\ (/\ call.config.root_issuer = Built.chain.proofs[1].ucan.issuer
                 /\ Required = <<Send(NoCaveat)>>) => ~call.result.ok

C3_Witness ==
    /\ call.pending
    /\ call.result.ok
    /\ Len(Root.proofs) = 1
    /\ Ucan_try_from(Root.proofs[1]).capabilities = <<Send(Draft)>>
    /\ Root.capabilities = <<Send(DraftTopic)>>
    /\ Required = <<Send(DraftTopic)>>
    /\ call.config.root_issuer = Alice

\* C5: where a node P redelegates its proof Q, P's reduction has, for every
\* entry q of Q's reduction, an entry that enables q's capability, with P's
\* own window and with all of q's originators; where Alice grants
\* (api:docs/*, docs/read) to Bob until 1000 and Bob issues (ucan:*, ucan/*)
\* until 500, the reduction has (api:docs/*, docs/read) with originators
\* {Alice} until 500.
C5_RedelegationInherits ==
    (call.pending /\ Built.ok) =>
       /\ \A P \in Nodes(Built.chain) :
             \A i \in 1..Len(P.proofs) :
                to_cid(P.proofs[i].ucan) \in P.redelegations =>
                   \A q \in Entries(reduce_capabilities(P.proofs[i])) :
                      \E entry \in Entries(reduce_capabilities(P)) :
                         /\ enables(entry.capability, q.capability)
                         /\ entry.not_before = P.ucan.not_before
                         /\ entry.expires_at = P.ucan.expires_at
                         /\ q.originators \subseteq entry.originators
       /\ (/\ Root.issuer = Bob
           /\ Root.expires_at = 500
           /\ Root.capabilities = <<DelegateAll>>
           /\ Len(Root.proofs) = 1
           /\ Built.chain.proofs[1].ucan.issuer = Alice
           /\ Built.chain.proofs[1].ucan.expires_at = 1000
           /\ Built.chain.proofs[1].ucan.proofs = <<>>
           /\ Built.chain.proofs[1].ucan.capabilities = <<DocsRead>>) =>
             CapabilityInfo({Alice}, None, 500, view(DocsRead)) \in Entries(Reduced)

\* C13: lifetime monotonicity: at every node of a built chain, the window of
\* every entry of the node's reduction lies within the window of every
\* token the entry can derive from: the node's own token and every token
\* reachable from it through proofs.
C13_LifetimeMonotonicity ==
    (call.pending /\ Built.ok) =>
       \A node \in Nodes(Built.chain) :
          \A entry \in Entries(reduce_capabilities(node)) :
             \A token \in Reachable(node.ucan) : Within(entry, token)

C13_Witness ==
    /\ call.pending
    /\ Built.ok
    /\ Root.capabilities = <<DelegateAll>>
    /\ Root.expires_at = 500
    /\ Len(Root.proofs) = 1
    /\ Built.chain.proofs[1].ucan.expires_at = 1000
    /\ Built.chain.proofs[1].ucan.capabilities = <<Post(<<"user", "/", "1">>)>>
    /\ CapabilityInfo({Built.chain.proofs[1].ucan.issuer}, None, 500,
                      view(Post(<<"user", "/", "1">>))) \in Entries(Reduced)

\* C14: originator closure: at every node of a built chain, every entry of
\* the node's reduction has originators, and each of them is the issuer of
\* the node's token or of a token reachable from it through proofs.
C14_OriginatorClosure ==
    (call.pending /\ Built.ok) =>
       \A node \in Nodes(Built.chain) :
          \A entry \in Entries(reduce_capabilities(node)) :
             /\ entry.originators # {}
             /\ entry.originators \subseteq
                   {token.issuer : token \in Reachable(node.ucan)}

C14_Witness ==
    /\ call.pending
    /\ Built.ok
    /\ Root.issuer = Bob
    /\ Len(Root.proofs) = 2
    /\ \E entry \in Entries(Reduced) : entry.originators = {Alice, Dan}

\* the limit of C15 on the nesting of proofs, scaled to the chains of the
\* model (the specification suggests 32; from_ucan takes no limit)
MaxDepth == 1

\* how deep the proofs of a token nest: 0 without proofs
RECURSIVE Depth(_)
Depth(token) ==
    IF token.proofs = <<>>
    THEN 0
    ELSE LET below == {Depth(Ucan_try_from(token.proofs[i])) : i \in 1..Len(token.proofs)}
         IN  1 + CHOOSE d \in below : \A e \in below : e <= d

\* C15: from_ucan enforces a maximum depth: the build of a token whose
\* proofs nest deeper than the limit returns no chain (it is to fail with
\* "proof chain too deep"; the statement of the claim, which the code does
\* not satisfy).
C15_DepthLimit ==
    (call.pending /\ Depth(Root) > MaxDepth) => ~Built.ok

\* C16: reduce_capabilities drops the own capabilities that do not parse one
\* by one: at every node of a built chain, every own capability that parses
\* has an entry in the node's self set, also when it is listed after one
\* that does not parse (the statement of the claim; the code does not
\* satisfy it).
C16_DropsIndividually ==
    (call.pending /\ Built.ok) =>
       \A node \in Nodes(Built.chain) :
          \A i \in 1..Len(node.ucan.capabilities) :
             parse_capability("General", node.ucan.capabilities[i]).ok =>
                \E entry \in Entries(self_capability_infos(node)) :
                   entry.capability = view(node.ucan.capabilities[i])

(***************************************************************************)
(* Claims about the redelegations of a chain (checked under                *)
(* SpecRedelegate).                                                        *)
(***************************************************************************)
ProofCids(token) == {token.proofs[k] : k \in 1..Len(token.proofs)}

\* the selectors a token delegates: the `ucan:` resources of its
\* capabilities with the ability `ucan/*`
Delegations(token) ==
    {token.capabilities[i].resource :
        i \in {j \in 1..Len(token.capabilities) :
                 /\ IsSelector(token.capabilities[j].resource)
                 /\ token.capabilities[j].ability = Delegate}}

IsDidScheme(resource) ==
    Len(resource) = 6 /\ resource[3] = "//" /\ resource[6] # "*"

RedelegationErrors ==
    {"Unable to redelegate proof; CID not found",
     "Unable to redelegate proof; DID not found",
     "Unable to redelegate proof; ucan://<did>/<scheme> not supported"}

\* every proof of the root builds a chain of its own and links to the root
ProofsBuild ==
    /\ InTime(Root, call.now)
    /\ Failure(Root) = ""
    /\ \A cid \in ProofCids(Root) :
          from_ucan(Ucan_try_from(cid), call.now, call.config.known_tokens).ok

\* C17: from_ucan returns no chain when a capability with the ability
\* `ucan/*` names by `ucan:<cid>` a CID that no immediate proof has (a
\* deeper ancestor's too), or by `ucan://<did>/*` a DID that issued no
\* immediate proof, and always when it is `ucan://<did>/<scheme>`; where
\* the proofs themselves build, the failure is the redelegation's.
C17_RedelegationErrors ==
    call.pending =>
       LET selected == Delegations(Root)
           unknown_cid == \E cid \in CidStrings :
                             UcanCid(cid) \in selected /\ cid \notin ProofCids(Root)
           unknown_did == \E did \in DIDs :
                             /\ UcanDid(did) \in selected
                             /\ \A cid \in ProofCids(Root) :
                                   Ucan_try_from(cid).issuer # did
           scheme == \E resource \in selected : IsDidScheme(resource)
       IN  (unknown_cid \/ unknown_did \/ scheme) =>
              /\ ~Built.ok
              /\ Built.chain = NoProofChain
              /\ ~call.result.ok
              /\ ProofsBuild => Built.err \in RedelegationErrors

C17_Witness ==
    /\ call.pending
    /\ Root.capabilities = <<Select(UcanCid("bafy1"))>>
    /\ Root.proofs = <<"bafy2">>
    /\ Ucan_try_from("bafy2").proofs = <<"bafy1">>
    /\ ProofsBuild
    /\ Built.err = "Unable to redelegate proof; CID not found"

\* C18: at every node of a built chain, a capability (`ucan:*`, `ucan/*`)
\* or (`ucan:./*`, `ucan/*`) puts the CID of every immediate proof into the
\* redelegations; the redelegations are always among the CIDs of the
\* immediate proofs, and empty where no capability has both a `ucan:`
\* resource and the ability `ucan/*`; a token without proofs that
\* delegates `ucan:*` or `ucan:./*` builds, with no redelegations.
C18_BlanketRedelegation ==
    call.pending =>
       /\ Built.ok =>
             \A node \in Nodes(Built.chain) :
                /\ Delegations(node.ucan) \cap {UcanAll, UcanTheseProofs} # {} =>
                      node.redelegations = ProofCids(node.ucan)
                /\ node.redelegations \subseteq ProofCids(node.ucan)
                /\ Delegations(node.ucan) = {} => node.redelegations = {}
       /\ (/\ Root.proofs = <<>>
           /\ InTime(Root, call.now)
           /\ Delegations(Root) # {}
           /\ Delegations(Root) \subseteq {UcanAll, UcanTheseProofs}) =>
             (Built.ok /\ Built.chain.redelegations = {})

C18_Witness ==
    /\ call.pending
    /\ Built.ok
    /\ Root.capabilities = <<Select(UcanTheseProofs)>>
    /\ Len(Root.proofs) = 2
    /\ Built.chain.redelegations = {"bafy1", "bafy2"}

\* the CID of the first proof of a token, in the order of its proofs, that
\* the DID issued
FirstBy(token, did) ==
    token.proofs[CHOOSE k \in 1..Len(token.proofs) :
                    /\ Ucan_try_from(token.proofs[k]).issuer = did
                    /\ \A j \in 1..(k - 1) : Ucan_try_from(token.proofs[j]).issuer # did]

\* C19: at every node of a built chain whose delegations are all of the
\* kind `ucan://<did>/*`, the redelegations are the first proof each DID
\* issued, in the order of the proofs; every other proof, further proofs of
\* the same DID too, is not redelegated: its reduction is part of the
\* ancestral set, and a capability of it shows in the node's reduction only
\* if the node claims it or a redelegated proof brings it.
C19_FirstProofOfDid ==
    (call.pending /\ Built.ok) =>
       \A node \in Nodes(Built.chain) :
          LET dids == {did \in DIDs : UcanDid(did) \in Delegations(node.ucan)}
              brought == UNION {Entries(reduce_capabilities(node.proofs[k])) :
                                  k \in {j \in 1..Len(node.proofs) :
                                           node.ucan.proofs[j] \in node.redelegations}}
          IN  (dids # {} /\ Delegations(node.ucan) = {UcanDid(did) : did \in dids}) =>
                 /\ node.redelegations = {FirstBy(node.ucan, did) : did \in dids}
                 /\ \A k \in 1..Len(node.proofs) :
                       node.ucan.proofs[k] \notin node.redelegations =>
                          \A q \in Entries(reduce_capabilities(node.proofs[k])) :
                             /\ q \in Entries(ancestral_capability_infos(node))
                             /\ (\E entry \in Entries(reduce_capabilities(node)) :
                                    entry.capability = q.capability) =>
                                   \/ \E i \in 1..Len(node.ucan.capabilities) :
                                         view(node.ucan.capabilities[i]) = q.capability
                                   \/ \E b \in brought : b.capability = q.capability

C19_Witness ==
    /\ call.pending
    /\ Built.ok
    /\ Root.capabilities = <<Post(<<"user", "/", "2">>), Select(UcanDid(Alice))>>
    /\ Root.proofs = <<"bafy2", "bafy1">>
    /\ Ucan_try_from("bafy1").issuer = Alice
    /\ Ucan_try_from("bafy1").capabilities = <<Post(<<"user", "/", "2">>)>>
    /\ Ucan_try_from("bafy2").issuer = Alice
    /\ Built.chain.redelegations = {"bafy2"}
    /\ \E entry \in Entries(Reduced) :
          /\ entry.capability = view(Post(<<"user", "/", "2">>))
          /\ entry.originators = {Alice}

(***************************************************************************)
(* Claims about the resolution of proofs (checked under SpecResolve).      *)
(***************************************************************************)
Store == call.config.known_tokens

\* the token carries the proof of the CID inline, as a string of facts.prf
CarriesInline(token, cid) ==
    \E entry \in token.facts : entry[1] = "prf" /\ cid \in entry[2].prf

Available(token, cid) == CarriesInline(token, cid) \/ cid \in Store

\* C20: from_ucan resolves the proofs of a token in their order, each from
\* the token's inline facts prf[cid] where that is a string, without need
\* of the store, and otherwise from the store; a proof that neither has
\* fails the build and no chain is returned; a chain whose proofs are all
\* to be had, in time and linked, builds.
C20_InlineThenStore ==
    call.pending =>
       /\ Built.ok =>
             \A node \in Nodes(Built.chain) :
                /\ Len(node.proofs) = Len(node.ucan.proofs)
                /\ \A k \in 1..Len(node.proofs) :
                      /\ node.proofs[k].ucan = Ucan_try_from(node.ucan.proofs[k])
                      /\ Available(node.ucan, node.ucan.proofs[k])
       /\ (\E cid \in ProofCids(Root) : ~Available(Root, cid)) =>
             /\ ~Built.ok
             /\ Built.chain = NoProofChain
             /\ ~call.result.ok
       /\ (/\ \A token \in Reachable(Root) :
                 /\ InTime(token, call.now)
                 /\ \A cid \in ProofCids(token) : Available(token, cid)
           /\ Failure(Root) = "") => Built.ok

C20_Witness ==
    /\ call.pending
    /\ Store = {}
    /\ Built.ok
    /\ Len(Root.proofs) = 1
    /\ CarriesInline(Root, Root.proofs[1])
    /\ Len(Built.chain.proofs[1].proofs) = 1
    /\ call.result.ok
    /\ call.result.cids = <<"bafy3", "bafy2", "bafy1">>

(***************************************************************************)
(* Claims about the order of the failures of a build (checked under        *)
(* SpecValidate).                                                          *)
(***************************************************************************)
\* the validation error of a token at the time of the call
TimeError(token) ==
    IF token.expires_at # None /\ call.now > token.expires_at
    THEN "expired"
    ELSE IF token.not_before # None /\ call.now < token.not_before
    THEN "not yet active"
    ELSE ""

\* the error of a delegation of a token, "" if it can be redelegated
DelegationError(token, resource) ==
    IF IsDidScheme(resource)
    THEN "Unable to redelegate proof; ucan://<did>/<scheme> not supported"
    ELSE IF \E cid \in CidStrings : resource = UcanCid(cid) /\ cid \notin ProofCids(token)
    THEN "Unable to redelegate proof; CID not found"
    ELSE IF \E did \in DIDs :
               /\ resource = UcanDid(did)
               /\ \A cid \in ProofCids(token) : Ucan_try_from(cid).issuer # did
    THEN "Unable to redelegate proof; DID not found"
    ELSE ""

\* the error of the first delegation of a token that cannot be redelegated
OwnRedelegationError(token) ==
    LET failing == {i \in 1..Len(token.capabilities) :
                      /\ token.capabilities[i].resource \in Delegations(token)
                      /\ token.capabilities[i].ability = Delegate
                      /\ DelegationError(token, token.capabilities[i].resource) # ""}
    IN  IF failing = {}
        THEN ""
        ELSE DelegationError(token,
                 token.capabilities[CHOOSE i \in failing : \A j \in failing : i <= j].resource)

\* the first failure in depth-first order: a token's validation, then its
\* proofs in their order (each proof's own failures, then its link to the
\* token), then the token's redelegations
RECURSIVE FirstFailure(_)
RECURSIVE FirstFailureFrom(_, _)
FirstFailureFrom(T, i) ==
    IF i > Len(T.proofs)
    THEN OwnRedelegationError(T)
    ELSE LET P == Ucan_try_from(T.proofs[i])
         IN  IF FirstFailure(P) # ""
             THEN FirstFailure(P)
             ELSE IF P.audience # T.issuer
             THEN "Invalid UCAN link: audience does not match issuer"
             ELSE IF ~Within(T, P)
             THEN "Invalid UCAN link: lifetime exceeds attenuation"
             ELSE FirstFailureFrom(T, i + 1)

FirstFailure(T) == IF TimeError(T) # "" THEN TimeError(T) ELSE FirstFailureFrom(T, 1)

LinkErrors ==
    {"Invalid UCAN link: audience does not match issuer",
     "Invalid UCAN link: lifetime exceeds attenuation"}

\* C21: from_ucan returns a chain only if the root and every token
\* reachable through proofs is valid at the one time of the call; a
\* token is validated before its proofs are resolved, the first failure in
\* depth-first order of the proofs is the failure of the build, a failure
\* inside a proof comes before a redelegation error of the token that
\* cites it, and a failed build returns no chain.
C21_FirstFailureFails ==
    call.pending =>
       /\ Built.ok => \A token \in Reachable(Root) : InTime(token, call.now)
       /\ Built.ok <=> FirstFailure(Root) = ""
       /\ Built.err = FirstFailure(Root)
       /\ TimeError(Root) # "" => Built.err = TimeError(Root)
       /\ (/\ TimeError(Root) = ""
           /\ OwnRedelegationError(Root) # ""
           /\ \E cid \in ProofCids(Root) : FirstFailure(Ucan_try_from(cid)) # "") =>
             Built.err \in ({FirstFailure(Ucan_try_from(cid)) : cid \in ProofCids(Root)}
                             \cup LinkErrors) \ {""}
       /\ ~Built.ok => (Built.chain = NoProofChain /\ ~call.result.ok)

C21_Witness ==
    /\ call.pending
    /\ call.now = 1500
    /\ Root.capabilities = <<Select(UcanDidScheme(Alice, "api"))>>
    /\ Root.expires_at = None
    /\ Len(Root.proofs) = 2
    /\ TimeError(Ucan_try_from(Root.proofs[1])) = ""
    /\ Ucan_try_from(Root.proofs[1]).audience = Root.issuer
    /\ TimeError(Ucan_try_from(Root.proofs[2])) = "expired"
    /\ Built.err = "expired"

(***************************************************************************)
(* The builder.                                                            *)
(***************************************************************************)
\* the value of add_proof_facts at the i-th call: that of the last
\* with_add_proof_facts call before it
FlagAt(i) ==
    LET set == {k \in 1..(i - 1) : calls[k].op = "with_add_proof_facts"}
    IN  IF set = {} THEN FALSE
        ELSE calls[CHOOSE k \in set : \A other \in set : other <= k].flag

InlineUnder(facts, cid) ==
    /\ contains_key(facts, "prf")
    /\ value_of(facts, "prf").kind = "object"
    /\ cid \in value_of(facts, "prf").prf

\* C22: after any sequence of builder calls, a witnessed_by(P) call leaves
\* P's CID as the last element of proofs and, when add_proof_facts is true at
\* that call, facts["prf"] an object that maps the CID to P's token; and the
\* built token carries under facts.prf every proof witnessed while the flag
\* was true.
C22_ProofsInline ==
    /\ (calls # <<>> /\ calls[Len(calls)].op = "witnessed_by") =>
          /\ ucan_builder.proofs # <<>>
          /\ ucan_builder.proofs[Len(ucan_builder.proofs)] = calls[Len(calls)].text
          /\ FlagAt(Len(calls)) => InlineUnder(ucan_builder.facts, calls[Len(calls)].text)
    /\ (build_result.built /\ build_result.ok) =>
          \A i \in 1..Len(calls) :
             (calls[i].op = "witnessed_by" /\ FlagAt(i)) =>
                InlineUnder(build_result.signable.facts, calls[i].text)

\* the calls of a method made so far, and the last of them
CallsOf(op) == {k \in 1..Len(calls) : calls[k].op = op}

LastCall(op) == calls[CHOOSE k \in CallsOf(op) : \A other \in CallsOf(op) : other <= k]

\* C23: the expiration of a built token does not depend on the order of the
\* calls: if with_expiration was called at any point it is the expiration
\* given, whether or not with_lifetime was called before or after; otherwise,
\* if with_lifetime was called, it is the time of the build plus the lifetime;
\* otherwise there is none.
C23_ExpirationResolution ==
    (build_result.built /\ build_result.ok) =>
        build_result.signable.expiration =
            IF CallsOf("with_expiration") # {}
            THEN LastCall("with_expiration").number
            ELSE IF CallsOf("with_lifetime") # {}
                 THEN LastCall("build").number + LastCall("with_lifetime").number
                 ELSE None

\* a token built after with_expiration and then with_lifetime were called
C23_Witness ==
    /\ build_result.built /\ build_result.ok
    /\ \E i \in CallsOf("with_expiration"), k \in CallsOf("with_lifetime") : i < k
    /\ build_result.signable.expiration = 1000

RecordsProof(entry) == entry.op \in {"witnessed_by", "delegating_from"}

\* the CIDs of the proofs the calls recorded, in the order of the calls
ProofsCalled ==
    LET recorded == SelectSeq(calls, RecordsProof)
    IN  [i \in 1..Len(recorded) |-> recorded[i].text]

RECURSIVE PreOrder(_)
RECURSIVE PreOrderOf(_, _)
PreOrderOf(proofs, i) ==
    IF i > Len(proofs) THEN <<>>
    ELSE PreOrder(proofs[i]) \o PreOrderOf(proofs, i + 1)

PreOrder(chain) == <<chain.ucan>> \o PreOrderOf(chain.proofs, 1)

\* the facts of the tokens of a chain other than prf, each key with the
\* value of the first token that has it
FirstFacts(chain) ==
    LET order == PreOrder(chain)
        has(i, key) == key # "prf" /\ contains_key(order[i].facts, key)
    IN  {entry \in UNION {order[i].facts : i \in 1..Len(order)} :
            \E i \in 1..Len(order) :
               /\ has(i, entry[1])
               /\ entry \in order[i].facts
               /\ \A k \in 1..(i - 1) : ~has(k, entry[1])}

\* C25: the facts of a response are the union of the facts of all tokens of
\* the chain without the key prf; of a key that several tokens have, the
\* value of the first token in depth-first pre-order from the root; and no
\* facts at all when that map is empty.
C25_FirstFactWins ==
    (call.pending /\ call.result.ok) =>
        call.result.facts =
            IF FirstFacts(Built.chain) = {} THEN {} ELSE {FirstFacts(Built.chain)}

\* a root of two proofs: the proof of the first proof and the second proof
\* have different values of a key neither the root nor the first proof has
C25_Witness ==
    /\ call.pending /\ call.result.ok
    /\ Len(Built.chain.proofs) = 2
    /\ Len(Built.chain.proofs[1].proofs) = 1
    /\ Root.facts = {} /\ Built.chain.proofs[1].ucan.facts = {<<"prf", PrfObject({})>>}
    /\ Built.chain.proofs[1].proofs[1].ucan.facts = {Uid1}
    /\ Built.chain.proofs[2].ucan.facts = {Uid2, Tag1}
    /\ call.result.facts = {{Uid1, Tag1}}

(***************************************************************************)
(* The merge of the reduction.                                             *)
(***************************************************************************)
\* one reduced entry of a proof of the node has the originator and enables
\* the capability
ProofGrants(node, originator, capability) ==
    \E i \in 1..Len(node.proofs) :
       \E entry \in Entries(reduce_capabilities(node.proofs[i])) :
          /\ originator \in entry.originators
          /\ enables(entry.capability, capability)

\* C26: originators never amplify authority: at every node with proofs, for
\* every entry of its reduction and every originator of the entry other than
\* the node's issuer, a reduced capability of one of its proofs has the
\* originator and enables the entry's capability; and verify with an
\* originator as root issuer succeeds for no required capability that no
\* capability attributed to it in the proofs enables.
C26_NoAmplification ==
    (call.pending /\ Built.ok) =>
       /\ \A node \in Nodes(Built.chain) :
             Len(node.proofs) > 0 =>
                \A entry \in Entries(reduce_capabilities(node)) :
                   \A originator \in entry.originators \ {node.ucan.issuer} :
                      ProofGrants(node, originator, entry.capability)
       /\ (/\ call.result.ok
           /\ Len(Root.proofs) > 0
           /\ call.config.root_issuer # Root.issuer) =>
             \A i \in 1..Len(Required) :
                ProofGrants(Built.chain, call.config.root_issuer, Rendered(Required[i]))

\* C27: the list reduce_capabilities returns is free of redundancy: no
\* entry's capability is enabled by the capability of a different entry,
\* whatever the order in which the capabilities were listed.
C27_NoRedundancy ==
    (call.pending /\ Built.ok) =>
       \A node \in Nodes(Built.chain) :
          LET infos == reduce_capabilities(node)
          IN  \A i \in 1..Len(infos), k \in 1..Len(infos) :
                 i # k => ~enables(infos[i].capability, infos[k].capability)

\* C28: reduce_capabilities returns only entries of the node's own
\* capabilities and of the reductions of its redelegated proofs: a
\* capability of a proof that is not redelegated and that the node does not
\* claim is absent.  Where T1 (Alice to Bob) grants X, T2 (Bob to Carol,
\* proof T1) claims nothing and T3 (Carol to Dan, proof T2) claims X, the
\* entry for X on T3 has originators {Carol}, not {Alice}.
C28_OnlyClaimedOrRedelegated ==
    (call.pending /\ Built.ok) =>
       /\ \A node \in Nodes(Built.chain) :
             \A entry \in Entries(reduce_capabilities(node)) :
                \/ \E i \in 1..Len(node.ucan.capabilities) :
                      /\ parse_capability("General", node.ucan.capabilities[i]).ok
                      /\ view(node.ucan.capabilities[i]) = entry.capability
                \/ \E i \in 1..Len(node.proofs) :
                      /\ to_cid(node.proofs[i].ucan) \in node.redelegations
                      /\ \E other \in Entries(reduce_capabilities(node.proofs[i])) :
                            other.capability = entry.capability
       /\ (/\ Root.issuer = Carol /\ Root.capabilities = <<Narrow>>
           /\ Len(Root.proofs) = 1
           /\ Built.chain.proofs[1].ucan.issuer = Bob
           /\ Built.chain.proofs[1].ucan.capabilities = <<>>
           /\ Len(Built.chain.proofs[1].proofs) = 1
           /\ Built.chain.proofs[1].proofs[1].ucan.issuer = Alice
           /\ Built.chain.proofs[1].proofs[1].ucan.capabilities = <<Narrow>>) =>
             Reduced = <<CapabilityInfo({Carol}, None, None, view(Narrow))>>

\* the chain T1, T2, T3 verified
C28_Witness ==
    /\ call.pending /\ Built.ok
    /\ Root.issuer = Carol /\ Root.capabilities = <<Narrow>>
    /\ Len(Root.proofs) = 1
    /\ Built.chain.proofs[1].ucan.issuer = Bob
    /\ Built.chain.proofs[1].ucan.capabilities = <<>>
    /\ Len(Built.chain.proofs[1].proofs) = 1
    /\ Built.chain.proofs[1].proofs[1].ucan.issuer = Alice
    /\ Built.chain.proofs[1].proofs[1].ucan.capabilities = <<Narrow>>
    /\ Reduced = <<CapabilityInfo({Carol}, None, None, view(Narrow))>>

(***************************************************************************)
(* The audience.                                                           *)
(***************************************************************************)
\* C30: verify fails with `invalid audience` whenever the audience of the
\* root token differs from the audience of the options, whatever the
\* capabilities and facts; the check comes after the chain is built, so that
\* an error of the chain is reported in preference, and before any check of
\* a required fact or a required capability.
C30_InvalidAudience ==
    call.pending =>
       /\ ~Built.ok => (~call.result.ok /\ call.result.err = Built.err)
       /\ (Built.ok /\ Root.audience # call.config.audience) =>
             (~call.result.ok /\ call.result.err = "invalid audience")
       /\ call.result.err \in {"no fact", "invalid fact", "no capability", "render"} =>
             (Built.ok /\ Root.audience = call.config.audience)

\* a call with the wrong audience, a required fact that is not there and a
\* required capability that nothing grants
C30_Witness ==
    /\ call.pending /\ Built.ok
    /\ Root.audience # call.config.audience
    /\ call.config.required_facts = <<Uid1>> /\ ~FactsMet
    /\ Required # <<>>
    /\ Len(Root.proofs) = 1
    /\ call.result.err = "invalid audience"

(***************************************************************************)
(* Verify calls side by side.                                              *)
(***************************************************************************)
\* C29: building the chain writes nothing to the token store, whose content
\* is the same before and after a build; and verify calls that run side by
\* side, each with a store of its own filled from its own known tokens
\* alone, return in every interleaving what they return when run alone.
C29_CallsDoNotInterfere ==
    /\ [](\A j \in DOMAIN jobs :
             jobs[j].pc = "done" =>
                /\ jobs[j].store = jobs[j].config.known_tokens
                /\ jobs[j].result =
                      internal_verify_ucan(jobs[j].token, jobs[j].config, jobs[j].now))
    /\ [][\A j \in DOMAIN jobs :
             (jobs[j].pc = "write" /\ jobs'[j].pc = "done") =>
                jobs'[j].store = jobs[j].store]_vars

\* two calls on the same token are done, the one with the proofs among its
\* known tokens, the other without them
C29_Witness ==
    /\ jobs # NoJobs
    /\ jobs[1].pc = "done" /\ jobs[2].pc = "done"
    /\ jobs[1].token = "bafy3" /\ jobs[2].token = "bafy3"
    /\ jobs[1].config.audience = Dan /\ jobs[2].config.audience = Dan
    /\ jobs[1].config.known_tokens = {"bafy1", "bafy2"}
    /\ jobs[2].config.known_tokens = {}
    /\ jobs[1].result.ok /\ ~jobs[2].result.ok

====
